---- MODULE Spec2Model ----
(***************************************************************************)
(* Model of the dictionary resolver of epubHighlighter:                    *)
(*   dictionary_lookup.py  HTMLDefinitionLookup (cache, lazy parsers,      *)
(*                         cross-reference following, sanitization)        *)
(*   parse.py / parse_oald.py  the two markup parsers and the renderer     *)
(*   endict.py             StarDictWrapper, the fallback source            *)
(*                                                                         *)
(* Strings are sequences of one-character strings.  An HTML string is a    *)
(* sequence of tokens, each one character or the abbreviation of the       *)
(* characters of a tag ("<b>", "</b>") or of a reference ("&lt;"); the     *)
(* HTML parser (html.parser under bs4) reads the characters.  A parsed     *)
(* document (BeautifulSoup tree) is a sequence of nodes.                   *)
(*                                                                         *)
(* Case mapping and the class of digits are those of ASCII: letters with   *)
(* case and decimal digits outside ASCII are not among the inputs.         *)
(* The spaCy pipeline of the fallback is data of the environment, like    *)
(* the dictionaries: a table of lemmas, and a tokenizer that cuts at white *)
(* space.                                                                  *)
(***************************************************************************)
EXTENDS Integers, Sequences, FiniteSets, TLC

\* ------------------------------------------------------------------------
\* Characters and Python string methods
\* ------------------------------------------------------------------------
UpperChars ==
  <<"A","B","C","D","E","F","G","H","I","J","K","L","M",
    "N","O","P","Q","R","S","T","U","V","W","X","Y","Z">>

LowerChars ==
  <<"a","b","c","d","e","f","g","h","i","j","k","l","m",
    "n","o","p","q","r","s","t","u","v","w","x","y","z">>

Range(s) == { s[i] : i \in DOMAIN s }

IsUpper(c) == c \in Range(UpperChars)

IsLowerLetter(c) == c \in Range(LowerChars)

IsLetter(c) == IsUpper(c) \/ IsLowerLetter(c)

IsDigit(c) == c \in {"0","1","2","3","4","5","6","7","8","9"}

\* str.isspace / the regex class \s: the white space of Unicode
IsSpace(c) ==
  c \in {" ", "\t", "\n", "\r", "\f", "U+000B", "U+001C", "U+001D", "U+001E",
         "U+001F", "U+0085", "U+00A0", "U+1680", "U+2000", "U+2001", "U+2002",
         "U+2003", "U+2004", "U+2005", "U+2006", "U+2007", "U+2008", "U+2009",
         "U+200A", "U+2028", "U+2029", "U+202F", "U+205F", "U+3000"}

LowerChar(c) ==
  IF IsUpper(c)
    THEN LowerChars[CHOOSE i \in DOMAIN UpperChars : UpperChars[i] = c]
    ELSE c

\* str.lower()
Lower(s) == [i \in DOMAIN s |-> LowerChar(s[i])]

RECURSIVE LStrip(_)
\* str.lstrip()
LStrip(s) ==
  IF s # <<>> /\ IsSpace(Head(s)) THEN LStrip(Tail(s)) ELSE s

RECURSIVE RStrip(_)
\* str.rstrip()
RStrip(s) ==
  IF s # <<>> /\ IsSpace(s[Len(s)])
    THEN RStrip(SubSeq(s, 1, Len(s) - 1))
    ELSE s

\* str.strip()
Strip(s) == LStrip(RStrip(s))

\* str.startswith(p)
StartsWith(s, p) == Len(s) >= Len(p) /\ SubSeq(s, 1, Len(p)) = p

\* str.endswith(p)
EndsWith(s, p) ==
  Len(s) >= Len(p) /\ SubSeq(s, Len(s) - Len(p) + 1, Len(s)) = p

\* p in s  (substring test)
Contains(s, p) ==
  \E i \in 1..(Len(s) - Len(p) + 1) : SubSeq(s, i, i + Len(p) - 1) = p

RECURSIVE Concat(_)
\* "".join(parts)
Concat(parts) ==
  IF parts = <<>> THEN <<>> ELSE Head(parts) \o Concat(Tail(parts))

RECURSIVE JoinWith(_, _)
\* sep.join(parts)
JoinWith(sep, parts) ==
  IF parts = <<>> THEN <<>>
  ELSE IF Len(parts) = 1 THEN Head(parts)
  ELSE Head(parts) \o sep \o JoinWith(sep, Tail(parts))

\* str.split(): the maximal runs of non-whitespace characters
SplitWords(s) ==
  LET starts == { i \in DOMAIN s : ~IsSpace(s[i]) /\ (i = 1 \/ IsSpace(s[i - 1])) }
      End(i) == CHOOSE k \in i..Len(s) :
                  /\ \A j \in i..k : ~IsSpace(s[j])
                  /\ (k = Len(s) \/ IsSpace(s[k + 1]))
      Words(order) == [k \in DOMAIN order |-> SubSeq(s, order[k], End(order[k]))]
  IN Words(SelectSeq([i \in DOMAIN s |-> i], LAMBDA i : i \in starts))

\* WS_RE.sub(" ", text).strip()
_normalize_ws(text) == JoinWith(<<" ">>, SplitWords(text))

\* ------------------------------------------------------------------------
\* Section keys
\* ------------------------------------------------------------------------
\* the characters of the section keys: the keys of SECTION_DISPLAY_NAMES,
\* which are all the keys the two parsers create, and keys that only a
\* caller of render_entry_html puts in a sections map
SectionKeyChars ==
  << <<"headnote", <<"h", "e", "a", "d", "n", "o", "t", "e">>>>,
     <<"phrases", <<"p", "h", "r", "a", "s", "e", "s">>>>,
     <<"derivatives", <<"d", "e", "r", "i", "v", "a", "t", "i", "v", "e", "s">>>>,
     <<"origin", <<"o", "r", "i", "g", "i", "n">>>>,
     <<"usage", <<"u", "s", "a", "g", "e">>>>,
     <<"grammar", <<"g", "r", "a", "m", "m", "a", "r">>>>,
     <<"verb_forms", <<"v", "e", "r", "b", "_", "f", "o", "r", "m", "s">>>>,
     <<"thesaurus", <<"t", "h", "e", "s", "a", "u", "r", "u", "s">>>>,
     <<"extra_examples", <<"e", "x", "t", "r", "a", "_", "e", "x", "a", "m", "p", "l", "e", "s">>>>,
     <<"more_about", <<"m", "o", "r", "e", "_", "a", "b", "o", "u", "t">>>>,
     <<"notes", <<"n", "o", "t", "e", "s">>>>,
     <<"etymology", <<"e", "t", "y", "m", "o", "l", "o", "g", "y">>>>,
     <<"see_also", <<"s", "e", "e", "_", "a", "l", "s", "o">>>>,
     <<"Word Origin", <<"W", "o", "r", "d", " ", "O", "r", "i", "g", "i", "n">>>>,
     <<"", <<>>>> >>

\* the characters of str(section_key)
KeyChars(section_key) ==
  SectionKeyChars[CHOOSE i \in DOMAIN SectionKeyChars :
                    SectionKeyChars[i][1] = section_key][2]

UpperChar(c) ==
  IF IsLowerLetter(c)
    THEN UpperChars[CHOOSE i \in DOMAIN LowerChars : LowerChars[i] = c]
    ELSE c

\* str.title(): a letter that follows no letter is upper case, every
\* other letter lower case
Title(s) ==
  [i \in DOMAIN s |->
     IF i = 1 \/ ~IsLetter(s[i - 1]) THEN UpperChar(s[i]) ELSE LowerChar(s[i])]

\* str.replace(old, new) for single characters
ReplaceChar(s, old, new) == [i \in DOMAIN s |-> IF s[i] = old THEN new ELSE s[i]]

\* a character that re.sub(r"[^0-9a-zA-Z_-]+", "-", ...) leaves in place
IsSafeChar(c) == IsLetter(c) \/ IsDigit(c) \/ c \in {"_", "-"}

\* re.sub(r"[^0-9a-zA-Z_-]+", "-", section_key): every maximal run of
\* other characters becomes one "-"
SafeChars(s) ==
  LET kept == SelectSeq([i \in DOMAIN s |-> i],
                        LAMBDA i : IsSafeChar(s[i]) \/ i = 1 \/ IsSafeChar(s[i - 1]))
  IN [k \in DOMAIN kept |-> IF IsSafeChar(s[kept[k]]) THEN s[kept[k]] ELSE "-"]

RECURSIVE LStripChars(_, _)
LStripChars(s, cs) ==
  IF s # <<>> /\ Head(s) \in cs THEN LStripChars(Tail(s), cs) ELSE s

RECURSIVE RStripChars(_, _)
\* str.rstrip(chars)
RStripChars(s, cs) ==
  IF s # <<>> /\ s[Len(s)] \in cs
    THEN RStripChars(SubSeq(s, 1, Len(s) - 1), cs)
    ELSE s

\* str.strip(chars)
StripChars(s, cs) == LStripChars(RStripChars(s, cs), cs)

\* safe.strip("-").lower() or "section"
SafeOrSection(safe) ==
  IF safe = <<>> THEN <<"s", "e", "c", "t", "i", "o", "n">> ELSE safe

_section_class_name(section_key) ==
  SafeOrSection(Lower(StripChars(SafeChars(KeyChars(section_key)), {"-"})))

RECURSIVE TokenText(_)
\* the characters written out as one token of markup
TokenText(cs) == IF cs = <<>> THEN "" ELSE Head(cs) \o TokenText(Tail(cs))

\* "entry-section entry-section-{class name}"
SectionClass(section_key) ==
  "entry-section entry-section-" \o TokenText(_section_class_name(section_key))

\* <section class="entry-section entry-section-{class name}">
SectionTag(section_key) == "<section class=" \o SectionClass(section_key) \o ">"

\* ------------------------------------------------------------------------
\* HTML strings (token sequences) and BeautifulSoup trees
\* ------------------------------------------------------------------------
\* An HTML string is written as a sequence of tokens.  A token of the tag
\* table or of the reference table abbreviates the characters of its text;
\* every other token is one character (a character outside printable ASCII
\* is written "\t", "\n", "\f", "\r" or "U+" and its code point in
\* hexadecimal, in four digits at least; so is the grave accent, "U+0060").
\* The parser reads the characters, so that a tag spelled in characters
\* and the token of the same text are read alike.

\* [0-9a-fA-F]
IsHexDigit(c) ==
  IsDigit(c) \/ c \in {"a", "b", "c", "d", "e", "f", "A", "B", "C", "D", "E", "F"}

\* [a-zA-Z0-9]
IsAlnum(c) == IsLetter(c) \/ IsDigit(c)

\* BeautifulSoup.ASCII_SPACES
IsAsciiSpace(c) == c \in {" ", "\n", "\t", "\f", "\r"}

\* the characters U+0020 to U+007E in the order of their code points
AsciiChars ==
  <<" ", "!", "\"", "#", "$", "%", "&", "'", "(", ")", "*", "+", ",", "-",
    ".", "/", "0", "1", "2", "3", "4", "5", "6", "7", "8", "9", ":", ";",
    "<", "=", ">", "?", "@", "A", "B", "C", "D", "E", "F", "G", "H", "I",
    "J", "K", "L", "M", "N", "O", "P", "Q", "R", "S", "T", "U", "V", "W",
    "X", "Y", "Z", "[", "\\", "]", "^", "_", "U+0060", "a", "b", "c", "d",
    "e", "f", "g", "h", "i", "j", "k", "l", "m", "n", "o", "p", "q", "r",
    "s", "t", "u", "v", "w", "x", "y", "z", "{", "|", "}", "~">>

HexDigits ==
  <<"0", "1", "2", "3", "4", "5", "6", "7", "8", "9", "A", "B", "C", "D", "E", "F">>

RECURSIVE Hex(_)
\* the digits of "%X" % n
Hex(n) ==
  IF n < 16 THEN HexDigits[n + 1]
  ELSE Hex(n \div 16) \o HexDigits[(n % 16) + 1]

\* chr(n): the character U+0060 is written by its code point as well
Chr(n) ==
  IF n \in 32..126 THEN AsciiChars[n - 31]
  ELSE IF n = 9 THEN "\t"
  ELSE IF n = 10 THEN "\n"
  ELSE IF n = 12 THEN "\f"
  ELSE IF n = 13 THEN "\r"
  ELSE "U+" \o (IF n < 16 THEN "000" ELSE IF n < 256 THEN "00"
                ELSE IF n < 4096 THEN "0" ELSE "") \o Hex(n)

\* ord(c) of a character written by its code point in d hexadecimal
\* digits: the number whose character it is
OrdOf(c, d) ==
  IF d = 4 THEN CHOOSE n \in 0..65535 : Chr(n) = c
  ELSE IF d = 5 THEN CHOOSE n \in 65536..1048575 : Chr(n) = c
  ELSE CHOOSE n \in 1048576..1114111 : Chr(n) = c

\* ord(c)
Ord(c) ==
  IF \E k \in DOMAIN AsciiChars : AsciiChars[k] = c
    THEN 31 + (CHOOSE k \in DOMAIN AsciiChars : AsciiChars[k] = c)
  ELSE IF c = "\t" THEN 9
  ELSE IF c = "\n" THEN 10
  ELSE IF c = "\f" THEN 12
  ELSE IF c = "\r" THEN 13
  ELSE OrdOf(c, Len(c) - 2)

\* html.entities.html5: <<name, characters, whether the name is also a
\* reference without the ";">>
HtmlEntities ==
  <<<<"AElig", <<"U+00C6">>, TRUE>>, <<"AMP", <<"&">>, TRUE>>,
    <<"Aacute", <<"U+00C1">>, TRUE>>, <<"Abreve", <<"U+0102">>, FALSE>>,
    <<"Acirc", <<"U+00C2">>, TRUE>>, <<"Acy", <<"U+0410">>, FALSE>>,
    <<"Afr", <<"U+1D504">>, FALSE>>, <<"Agrave", <<"U+00C0">>, TRUE>>,
    <<"Alpha", <<"U+0391">>, FALSE>>, <<"Amacr", <<"U+0100">>, FALSE>>,
    <<"And", <<"U+2A53">>, FALSE>>, <<"Aogon", <<"U+0104">>, FALSE>>,
    <<"Aopf", <<"U+1D538">>, FALSE>>,
    <<"ApplyFunction", <<"U+2061">>, FALSE>>,
    <<"Aring", <<"U+00C5">>, TRUE>>, <<"Ascr", <<"U+1D49C">>, FALSE>>,
    <<"Assign", <<"U+2254">>, FALSE>>, <<"Atilde", <<"U+00C3">>, TRUE>>,
    <<"Auml", <<"U+00C4">>, TRUE>>, <<"Backslash", <<"U+2216">>, FALSE>>,
    <<"Barv", <<"U+2AE7">>, FALSE>>, <<"Barwed", <<"U+2306">>, FALSE>>,
    <<"Bcy", <<"U+0411">>, FALSE>>, <<"Because", <<"U+2235">>, FALSE>>,
    <<"Bernoullis", <<"U+212C">>, FALSE>>, <<"Beta", <<"U+0392">>, FALSE>>,
    <<"Bfr", <<"U+1D505">>, FALSE>>, <<"Bopf", <<"U+1D539">>, FALSE>>,
    <<"Breve", <<"U+02D8">>, FALSE>>, <<"Bscr", <<"U+212C">>, FALSE>>,
    <<"Bumpeq", <<"U+224E">>, FALSE>>, <<"CHcy", <<"U+0427">>, FALSE>>,
    <<"COPY", <<"U+00A9">>, TRUE>>, <<"Cacute", <<"U+0106">>, FALSE>>,
    <<"Cap", <<"U+22D2">>, FALSE>>,
    <<"CapitalDifferentialD", <<"U+2145">>, FALSE>>,
    <<"Cayleys", <<"U+212D">>, FALSE>>, <<"Ccaron", <<"U+010C">>, FALSE>>,
    <<"Ccedil", <<"U+00C7">>, TRUE>>, <<"Ccirc", <<"U+0108">>, FALSE>>,
    <<"Cconint", <<"U+2230">>, FALSE>>, <<"Cdot", <<"U+010A">>, FALSE>>,
    <<"Cedilla", <<"U+00B8">>, FALSE>>, <<"CenterDot", <<"U+00B7">>, FALSE>>,
    <<"Cfr", <<"U+212D">>, FALSE>>, <<"Chi", <<"U+03A7">>, FALSE>>,
    <<"CircleDot", <<"U+2299">>, FALSE>>,
    <<"CircleMinus", <<"U+2296">>, FALSE>>,
    <<"CirclePlus", <<"U+2295">>, FALSE>>,
    <<"CircleTimes", <<"U+2297">>, FALSE>>,
    <<"ClockwiseContourIntegral", <<"U+2232">>, FALSE>>,
    <<"CloseCurlyDoubleQuote", <<"U+201D">>, FALSE>>,
    <<"CloseCurlyQuote", <<"U+2019">>, FALSE>>,
    <<"Colon", <<"U+2237">>, FALSE>>, <<"Colone", <<"U+2A74">>, FALSE>>,
    <<"Congruent", <<"U+2261">>, FALSE>>, <<"Conint", <<"U+222F">>, FALSE>>,
    <<"ContourIntegral", <<"U+222E">>, FALSE>>,
    <<"Copf", <<"U+2102">>, FALSE>>, <<"Coproduct", <<"U+2210">>, FALSE>>,
    <<"CounterClockwiseContourIntegral", <<"U+2233">>, FALSE>>,
    <<"Cross", <<"U+2A2F">>, FALSE>>, <<"Cscr", <<"U+1D49E">>, FALSE>>,
    <<"Cup", <<"U+22D3">>, FALSE>>, <<"CupCap", <<"U+224D">>, FALSE>>,
    <<"DD", <<"U+2145">>, FALSE>>, <<"DDotrahd", <<"U+2911">>, FALSE>>,
    <<"DJcy", <<"U+0402">>, FALSE>>, <<"DScy", <<"U+0405">>, FALSE>>,
    <<"DZcy", <<"U+040F">>, FALSE>>, <<"Dagger", <<"U+2021">>, FALSE>>,
    <<"Darr", <<"U+21A1">>, FALSE>>, <<"Dashv", <<"U+2AE4">>, FALSE>>,
    <<"Dcaron", <<"U+010E">>, FALSE>>, <<"Dcy", <<"U+0414">>, FALSE>>,
    <<"Del", <<"U+2207">>, FALSE>>, <<"Delta", <<"U+0394">>, FALSE>>,
    <<"Dfr", <<"U+1D507">>, FALSE>>,
    <<"DiacriticalAcute", <<"U+00B4">>, FALSE>>,
    <<"DiacriticalDot", <<"U+02D9">>, FALSE>>,
    <<"DiacriticalDoubleAcute", <<"U+02DD">>, FALSE>>,
    <<"DiacriticalGrave", <<"U+0060">>, FALSE>>,
    <<"DiacriticalTilde", <<"U+02DC">>, FALSE>>,
    <<"Diamond", <<"U+22C4">>, FALSE>>,
    <<"DifferentialD", <<"U+2146">>, FALSE>>,
    <<"Dopf", <<"U+1D53B">>, FALSE>>, <<"Dot", <<"U+00A8">>, FALSE>>,
    <<"DotDot", <<"U+20DC">>, FALSE>>, <<"DotEqual", <<"U+2250">>, FALSE>>,
    <<"DoubleContourIntegral", <<"U+222F">>, FALSE>>,
    <<"DoubleDot", <<"U+00A8">>, FALSE>>,
    <<"DoubleDownArrow", <<"U+21D3">>, FALSE>>,
    <<"DoubleLeftArrow", <<"U+21D0">>, FALSE>>,
    <<"DoubleLeftRightArrow", <<"U+21D4">>, FALSE>>,
    <<"DoubleLeftTee", <<"U+2AE4">>, FALSE>>,
    <<"DoubleLongLeftArrow", <<"U+27F8">>, FALSE>>,
    <<"DoubleLongLeftRightArrow", <<"U+27FA">>, FALSE>>,
    <<"DoubleLongRightArrow", <<"U+27F9">>, FALSE>>,
    <<"DoubleRightArrow", <<"U+21D2">>, FALSE>>,
    <<"DoubleRightTee", <<"U+22A8">>, FALSE>>,
    <<"DoubleUpArrow", <<"U+21D1">>, FALSE>>,
    <<"DoubleUpDownArrow", <<"U+21D5">>, FALSE>>,
    <<"DoubleVerticalBar", <<"U+2225">>, FALSE>>,
    <<"DownArrow", <<"U+2193">>, FALSE>>,
    <<"DownArrowBar", <<"U+2913">>, FALSE>>,
    <<"DownArrowUpArrow", <<"U+21F5">>, FALSE>>,
    <<"DownBreve", <<"U+0311">>, FALSE>>,
    <<"DownLeftRightVector", <<"U+2950">>, FALSE>>,
    <<"DownLeftTeeVector", <<"U+295E">>, FALSE>>,
    <<"DownLeftVector", <<"U+21BD">>, FALSE>>,
    <<"DownLeftVectorBar", <<"U+2956">>, FALSE>>,
    <<"DownRightTeeVector", <<"U+295F">>, FALSE>>,
    <<"DownRightVector", <<"U+21C1">>, FALSE>>,
    <<"DownRightVectorBar", <<"U+2957">>, FALSE>>,
    <<"DownTee", <<"U+22A4">>, FALSE>>,
    <<"DownTeeArrow", <<"U+21A7">>, FALSE>>,
    <<"Downarrow", <<"U+21D3">>, FALSE>>, <<"Dscr", <<"U+1D49F">>, FALSE>>,
    <<"Dstrok", <<"U+0110">>, FALSE>>, <<"ENG", <<"U+014A">>, FALSE>>,
    <<"ETH", <<"U+00D0">>, TRUE>>, <<"Eacute", <<"U+00C9">>, TRUE>>,
    <<"Ecaron", <<"U+011A">>, FALSE>>, <<"Ecirc", <<"U+00CA">>, TRUE>>,
    <<"Ecy", <<"U+042D">>, FALSE>>, <<"Edot", <<"U+0116">>, FALSE>>,
    <<"Efr", <<"U+1D508">>, FALSE>>, <<"Egrave", <<"U+00C8">>, TRUE>>,
    <<"Element", <<"U+2208">>, FALSE>>, <<"Emacr", <<"U+0112">>, FALSE>>,
    <<"EmptySmallSquare", <<"U+25FB">>, FALSE>>,
    <<"EmptyVerySmallSquare", <<"U+25AB">>, FALSE>>,
    <<"Eogon", <<"U+0118">>, FALSE>>, <<"Eopf", <<"U+1D53C">>, FALSE>>,
    <<"Epsilon", <<"U+0395">>, FALSE>>, <<"Equal", <<"U+2A75">>, FALSE>>,
    <<"EqualTilde", <<"U+2242">>, FALSE>>,
    <<"Equilibrium", <<"U+21CC">>, FALSE>>, <<"Escr", <<"U+2130">>, FALSE>>,
    <<"Esim", <<"U+2A73">>, FALSE>>, <<"Eta", <<"U+0397">>, FALSE>>,
    <<"Euml", <<"U+00CB">>, TRUE>>, <<"Exists", <<"U+2203">>, FALSE>>,
    <<"ExponentialE", <<"U+2147">>, FALSE>>, <<"Fcy", <<"U+0424">>, FALSE>>,
    <<"Ffr", <<"U+1D509">>, FALSE>>,
    <<"FilledSmallSquare", <<"U+25FC">>, FALSE>>,
    <<"FilledVerySmallSquare", <<"U+25AA">>, FALSE>>,
    <<"Fopf", <<"U+1D53D">>, FALSE>>, <<"ForAll", <<"U+2200">>, FALSE>>,
    <<"Fouriertrf", <<"U+2131">>, FALSE>>, <<"Fscr", <<"U+2131">>, FALSE>>,
    <<"GJcy", <<"U+0403">>, FALSE>>, <<"GT", <<">">>, TRUE>>,
    <<"Gamma", <<"U+0393">>, FALSE>>, <<"Gammad", <<"U+03DC">>, FALSE>>,
    <<"Gbreve", <<"U+011E">>, FALSE>>, <<"Gcedil", <<"U+0122">>, FALSE>>,
    <<"Gcirc", <<"U+011C">>, FALSE>>, <<"Gcy", <<"U+0413">>, FALSE>>,
    <<"Gdot", <<"U+0120">>, FALSE>>, <<"Gfr", <<"U+1D50A">>, FALSE>>,
    <<"Gg", <<"U+22D9">>, FALSE>>, <<"Gopf", <<"U+1D53E">>, FALSE>>,
    <<"GreaterEqual", <<"U+2265">>, FALSE>>,
    <<"GreaterEqualLess", <<"U+22DB">>, FALSE>>,
    <<"GreaterFullEqual", <<"U+2267">>, FALSE>>,
    <<"GreaterGreater", <<"U+2AA2">>, FALSE>>,
    <<"GreaterLess", <<"U+2277">>, FALSE>>,
    <<"GreaterSlantEqual", <<"U+2A7E">>, FALSE>>,
    <<"GreaterTilde", <<"U+2273">>, FALSE>>,
    <<"Gscr", <<"U+1D4A2">>, FALSE>>, <<"Gt", <<"U+226B">>, FALSE>>,
    <<"HARDcy", <<"U+042A">>, FALSE>>, <<"Hacek", <<"U+02C7">>, FALSE>>,
    <<"Hat", <<"^">>, FALSE>>, <<"Hcirc", <<"U+0124">>, FALSE>>,
    <<"Hfr", <<"U+210C">>, FALSE>>, <<"HilbertSpace", <<"U+210B">>, FALSE>>,
    <<"Hopf", <<"U+210D">>, FALSE>>,
    <<"HorizontalLine", <<"U+2500">>, FALSE>>,
    <<"Hscr", <<"U+210B">>, FALSE>>, <<"Hstrok", <<"U+0126">>, FALSE>>,
    <<"HumpDownHump", <<"U+224E">>, FALSE>>,
    <<"HumpEqual", <<"U+224F">>, FALSE>>, <<"IEcy", <<"U+0415">>, FALSE>>,
    <<"IJlig", <<"U+0132">>, FALSE>>, <<"IOcy", <<"U+0401">>, FALSE>>,
    <<"Iacute", <<"U+00CD">>, TRUE>>, <<"Icirc", <<"U+00CE">>, TRUE>>,
    <<"Icy", <<"U+0418">>, FALSE>>, <<"Idot", <<"U+0130">>, FALSE>>,
    <<"Ifr", <<"U+2111">>, FALSE>>, <<"Igrave", <<"U+00CC">>, TRUE>>,
    <<"Im", <<"U+2111">>, FALSE>>, <<"Imacr", <<"U+012A">>, FALSE>>,
    <<"ImaginaryI", <<"U+2148">>, FALSE>>,
    <<"Implies", <<"U+21D2">>, FALSE>>, <<"Int", <<"U+222C">>, FALSE>>,
    <<"Integral", <<"U+222B">>, FALSE>>,
    <<"Intersection", <<"U+22C2">>, FALSE>>,
    <<"InvisibleComma", <<"U+2063">>, FALSE>>,
    <<"InvisibleTimes", <<"U+2062">>, FALSE>>,
    <<"Iogon", <<"U+012E">>, FALSE>>, <<"Iopf", <<"U+1D540">>, FALSE>>,
    <<"Iota", <<"U+0399">>, FALSE>>, <<"Iscr", <<"U+2110">>, FALSE>>,
    <<"Itilde", <<"U+0128">>, FALSE>>, <<"Iukcy", <<"U+0406">>, FALSE>>,
    <<"Iuml", <<"U+00CF">>, TRUE>>, <<"Jcirc", <<"U+0134">>, FALSE>>,
    <<"Jcy", <<"U+0419">>, FALSE>>, <<"Jfr", <<"U+1D50D">>, FALSE>>,
    <<"Jopf", <<"U+1D541">>, FALSE>>, <<"Jscr", <<"U+1D4A5">>, FALSE>>,
    <<"Jsercy", <<"U+0408">>, FALSE>>, <<"Jukcy", <<"U+0404">>, FALSE>>,
    <<"KHcy", <<"U+0425">>, FALSE>>, <<"KJcy", <<"U+040C">>, FALSE>>,
    <<"Kappa", <<"U+039A">>, FALSE>>, <<"Kcedil", <<"U+0136">>, FALSE>>,
    <<"Kcy", <<"U+041A">>, FALSE>>, <<"Kfr", <<"U+1D50E">>, FALSE>>,
    <<"Kopf", <<"U+1D542">>, FALSE>>, <<"Kscr", <<"U+1D4A6">>, FALSE>>,
    <<"LJcy", <<"U+0409">>, FALSE>>, <<"LT", <<"<">>, TRUE>>,
    <<"Lacute", <<"U+0139">>, FALSE>>, <<"Lambda", <<"U+039B">>, FALSE>>,
    <<"Lang", <<"U+27EA">>, FALSE>>, <<"Laplacetrf", <<"U+2112">>, FALSE>>,
    <<"Larr", <<"U+219E">>, FALSE>>, <<"Lcaron", <<"U+013D">>, FALSE>>,
    <<"Lcedil", <<"U+013B">>, FALSE>>, <<"Lcy", <<"U+041B">>, FALSE>>,
    <<"LeftAngleBracket", <<"U+27E8">>, FALSE>>,
    <<"LeftArrow", <<"U+2190">>, FALSE>>,
    <<"LeftArrowBar", <<"U+21E4">>, FALSE>>,
    <<"LeftArrowRightArrow", <<"U+21C6">>, FALSE>>,
    <<"LeftCeiling", <<"U+2308">>, FALSE>>,
    <<"LeftDoubleBracket", <<"U+27E6">>, FALSE>>,
    <<"LeftDownTeeVector", <<"U+2961">>, FALSE>>,
    <<"LeftDownVector", <<"U+21C3">>, FALSE>>,
    <<"LeftDownVectorBar", <<"U+2959">>, FALSE>>,
    <<"LeftFloor", <<"U+230A">>, FALSE>>,
    <<"LeftRightArrow", <<"U+2194">>, FALSE>>,
    <<"LeftRightVector", <<"U+294E">>, FALSE>>,
    <<"LeftTee", <<"U+22A3">>, FALSE>>,
    <<"LeftTeeArrow", <<"U+21A4">>, FALSE>>,
    <<"LeftTeeVector", <<"U+295A">>, FALSE>>,
    <<"LeftTriangle", <<"U+22B2">>, FALSE>>,
    <<"LeftTriangleBar", <<"U+29CF">>, FALSE>>,
    <<"LeftTriangleEqual", <<"U+22B4">>, FALSE>>,
    <<"LeftUpDownVector", <<"U+2951">>, FALSE>>,
    <<"LeftUpTeeVector", <<"U+2960">>, FALSE>>,
    <<"LeftUpVector", <<"U+21BF">>, FALSE>>,
    <<"LeftUpVectorBar", <<"U+2958">>, FALSE>>,
    <<"LeftVector", <<"U+21BC">>, FALSE>>,
    <<"LeftVectorBar", <<"U+2952">>, FALSE>>,
    <<"Leftarrow", <<"U+21D0">>, FALSE>>,
    <<"Leftrightarrow", <<"U+21D4">>, FALSE>>,
    <<"LessEqualGreater", <<"U+22DA">>, FALSE>>,
    <<"LessFullEqual", <<"U+2266">>, FALSE>>,
    <<"LessGreater", <<"U+2276">>, FALSE>>,
    <<"LessLess", <<"U+2AA1">>, FALSE>>,
    <<"LessSlantEqual", <<"U+2A7D">>, FALSE>>,
    <<"LessTilde", <<"U+2272">>, FALSE>>, <<"Lfr", <<"U+1D50F">>, FALSE>>,
    <<"Ll", <<"U+22D8">>, FALSE>>, <<"Lleftarrow", <<"U+21DA">>, FALSE>>,
    <<"Lmidot", <<"U+013F">>, FALSE>>,
    <<"LongLeftArrow", <<"U+27F5">>, FALSE>>,
    <<"LongLeftRightArrow", <<"U+27F7">>, FALSE>>,
    <<"LongRightArrow", <<"U+27F6">>, FALSE>>,
    <<"Longleftarrow", <<"U+27F8">>, FALSE>>,
    <<"Longleftrightarrow", <<"U+27FA">>, FALSE>>,
    <<"Longrightarrow", <<"U+27F9">>, FALSE>>,
    <<"Lopf", <<"U+1D543">>, FALSE>>,
    <<"LowerLeftArrow", <<"U+2199">>, FALSE>>,
    <<"LowerRightArrow", <<"U+2198">>, FALSE>>,
    <<"Lscr", <<"U+2112">>, FALSE>>, <<"Lsh", <<"U+21B0">>, FALSE>>,
    <<"Lstrok", <<"U+0141">>, FALSE>>, <<"Lt", <<"U+226A">>, FALSE>>,
    <<"Map", <<"U+2905">>, FALSE>>, <<"Mcy", <<"U+041C">>, FALSE>>,
    <<"MediumSpace", <<"U+205F">>, FALSE>>,
    <<"Mellintrf", <<"U+2133">>, FALSE>>, <<"Mfr", <<"U+1D510">>, FALSE>>,
    <<"MinusPlus", <<"U+2213">>, FALSE>>, <<"Mopf", <<"U+1D544">>, FALSE>>,
    <<"Mscr", <<"U+2133">>, FALSE>>, <<"Mu", <<"U+039C">>, FALSE>>,
    <<"NJcy", <<"U+040A">>, FALSE>>, <<"Nacute", <<"U+0143">>, FALSE>>,
    <<"Ncaron", <<"U+0147">>, FALSE>>, <<"Ncedil", <<"U+0145">>, FALSE>>,
    <<"Ncy", <<"U+041D">>, FALSE>>,
    <<"NegativeMediumSpace", <<"U+200B">>, FALSE>>,
    <<"NegativeThickSpace", <<"U+200B">>, FALSE>>,
    <<"NegativeThinSpace", <<"U+200B">>, FALSE>>,
    <<"NegativeVeryThinSpace", <<"U+200B">>, FALSE>>,
    <<"NestedGreaterGreater", <<"U+226B">>, FALSE>>,
    <<"NestedLessLess", <<"U+226A">>, FALSE>>,
    <<"NewLine", <<"\n">>, FALSE>>, <<"Nfr", <<"U+1D511">>, FALSE>>,
    <<"NoBreak", <<"U+2060">>, FALSE>>,
    <<"NonBreakingSpace", <<"U+00A0">>, FALSE>>,
    <<"Nopf", <<"U+2115">>, FALSE>>, <<"Not", <<"U+2AEC">>, FALSE>>,
    <<"NotCongruent", <<"U+2262">>, FALSE>>,
    <<"NotCupCap", <<"U+226D">>, FALSE>>,
    <<"NotDoubleVerticalBar", <<"U+2226">>, FALSE>>,
    <<"NotElement", <<"U+2209">>, FALSE>>,
    <<"NotEqual", <<"U+2260">>, FALSE>>,
    <<"NotEqualTilde", <<"U+2242", "U+0338">>, FALSE>>,
    <<"NotExists", <<"U+2204">>, FALSE>>,
    <<"NotGreater", <<"U+226F">>, FALSE>>,
    <<"NotGreaterEqual", <<"U+2271">>, FALSE>>,
    <<"NotGreaterFullEqual", <<"U+2267", "U+0338">>, FALSE>>,
    <<"NotGreaterGreater", <<"U+226B", "U+0338">>, FALSE>>,
    <<"NotGreaterLess", <<"U+2279">>, FALSE>>,
    <<"NotGreaterSlantEqual", <<"U+2A7E", "U+0338">>, FALSE>>,
    <<"NotGreaterTilde", <<"U+2275">>, FALSE>>,
    <<"NotHumpDownHump", <<"U+224E", "U+0338">>, FALSE>>,
    <<"NotHumpEqual", <<"U+224F", "U+0338">>, FALSE>>,
    <<"NotLeftTriangle", <<"U+22EA">>, FALSE>>,
    <<"NotLeftTriangleBar", <<"U+29CF", "U+0338">>, FALSE>>,
    <<"NotLeftTriangleEqual", <<"U+22EC">>, FALSE>>,
    <<"NotLess", <<"U+226E">>, FALSE>>,
    <<"NotLessEqual", <<"U+2270">>, FALSE>>,
    <<"NotLessGreater", <<"U+2278">>, FALSE>>,
    <<"NotLessLess", <<"U+226A", "U+0338">>, FALSE>>,
    <<"NotLessSlantEqual", <<"U+2A7D", "U+0338">>, FALSE>>,
    <<"NotLessTilde", <<"U+2274">>, FALSE>>,
    <<"NotNestedGreaterGreater", <<"U+2AA2", "U+0338">>, FALSE>>,
    <<"NotNestedLessLess", <<"U+2AA1", "U+0338">>, FALSE>>,
    <<"NotPrecedes", <<"U+2280">>, FALSE>>,
    <<"NotPrecedesEqual", <<"U+2AAF", "U+0338">>, FALSE>>,
    <<"NotPrecedesSlantEqual", <<"U+22E0">>, FALSE>>,
    <<"NotReverseElement", <<"U+220C">>, FALSE>>,
    <<"NotRightTriangle", <<"U+22EB">>, FALSE>>,
    <<"NotRightTriangleBar", <<"U+29D0", "U+0338">>, FALSE>>,
    <<"NotRightTriangleEqual", <<"U+22ED">>, FALSE>>,
    <<"NotSquareSubset", <<"U+228F", "U+0338">>, FALSE>>,
    <<"NotSquareSubsetEqual", <<"U+22E2">>, FALSE>>,
    <<"NotSquareSuperset", <<"U+2290", "U+0338">>, FALSE>>,
    <<"NotSquareSupersetEqual", <<"U+22E3">>, FALSE>>,
    <<"NotSubset", <<"U+2282", "U+20D2">>, FALSE>>,
    <<"NotSubsetEqual", <<"U+2288">>, FALSE>>,
    <<"NotSucceeds", <<"U+2281">>, FALSE>>,
    <<"NotSucceedsEqual", <<"U+2AB0", "U+0338">>, FALSE>>,
    <<"NotSucceedsSlantEqual", <<"U+22E1">>, FALSE>>,
    <<"NotSucceedsTilde", <<"U+227F", "U+0338">>, FALSE>>,
    <<"NotSuperset", <<"U+2283", "U+20D2">>, FALSE>>,
    <<"NotSupersetEqual", <<"U+2289">>, FALSE>>,
    <<"NotTilde", <<"U+2241">>, FALSE>>,
    <<"NotTildeEqual", <<"U+2244">>, FALSE>>,
    <<"NotTildeFullEqual", <<"U+2247">>, FALSE>>,
    <<"NotTildeTilde", <<"U+2249">>, FALSE>>,
    <<"NotVerticalBar", <<"U+2224">>, FALSE>>,
    <<"Nscr", <<"U+1D4A9">>, FALSE>>, <<"Ntilde", <<"U+00D1">>, TRUE>>,
    <<"Nu", <<"U+039D">>, FALSE>>, <<"OElig", <<"U+0152">>, FALSE>>,
    <<"Oacute", <<"U+00D3">>, TRUE>>, <<"Ocirc", <<"U+00D4">>, TRUE>>,
    <<"Ocy", <<"U+041E">>, FALSE>>, <<"Odblac", <<"U+0150">>, FALSE>>,
    <<"Ofr", <<"U+1D512">>, FALSE>>, <<"Ograve", <<"U+00D2">>, TRUE>>,
    <<"Omacr", <<"U+014C">>, FALSE>>, <<"Omega", <<"U+03A9">>, FALSE>>,
    <<"Omicron", <<"U+039F">>, FALSE>>, <<"Oopf", <<"U+1D546">>, FALSE>>,
    <<"OpenCurlyDoubleQuote", <<"U+201C">>, FALSE>>,
    <<"OpenCurlyQuote", <<"U+2018">>, FALSE>>, <<"Or", <<"U+2A54">>, FALSE>>,
    <<"Oscr", <<"U+1D4AA">>, FALSE>>, <<"Oslash", <<"U+00D8">>, TRUE>>,
    <<"Otilde", <<"U+00D5">>, TRUE>>, <<"Otimes", <<"U+2A37">>, FALSE>>,
    <<"Ouml", <<"U+00D6">>, TRUE>>, <<"OverBar", <<"U+203E">>, FALSE>>,
    <<"OverBrace", <<"U+23DE">>, FALSE>>,
    <<"OverBracket", <<"U+23B4">>, FALSE>>,
    <<"OverParenthesis", <<"U+23DC">>, FALSE>>,
    <<"PartialD", <<"U+2202">>, FALSE>>, <<"Pcy", <<"U+041F">>, FALSE>>,
    <<"Pfr", <<"U+1D513">>, FALSE>>, <<"Phi", <<"U+03A6">>, FALSE>>,
    <<"Pi", <<"U+03A0">>, FALSE>>, <<"PlusMinus", <<"U+00B1">>, FALSE>>,
    <<"Poincareplane", <<"U+210C">>, FALSE>>,
    <<"Popf", <<"U+2119">>, FALSE>>, <<"Pr", <<"U+2ABB">>, FALSE>>,
    <<"Precedes", <<"U+227A">>, FALSE>>,
    <<"PrecedesEqual", <<"U+2AAF">>, FALSE>>,
    <<"PrecedesSlantEqual", <<"U+227C">>, FALSE>>,
    <<"PrecedesTilde", <<"U+227E">>, FALSE>>,
    <<"Prime", <<"U+2033">>, FALSE>>, <<"Product", <<"U+220F">>, FALSE>>,
    <<"Proportion", <<"U+2237">>, FALSE>>,
    <<"Proportional", <<"U+221D">>, FALSE>>,
    <<"Pscr", <<"U+1D4AB">>, FALSE>>, <<"Psi", <<"U+03A8">>, FALSE>>,
    <<"QUOT", <<"\"">>, TRUE>>, <<"Qfr", <<"U+1D514">>, FALSE>>,
    <<"Qopf", <<"U+211A">>, FALSE>>, <<"Qscr", <<"U+1D4AC">>, FALSE>>,
    <<"RBarr", <<"U+2910">>, FALSE>>, <<"REG", <<"U+00AE">>, TRUE>>,
    <<"Racute", <<"U+0154">>, FALSE>>, <<"Rang", <<"U+27EB">>, FALSE>>,
    <<"Rarr", <<"U+21A0">>, FALSE>>, <<"Rarrtl", <<"U+2916">>, FALSE>>,
    <<"Rcaron", <<"U+0158">>, FALSE>>, <<"Rcedil", <<"U+0156">>, FALSE>>,
    <<"Rcy", <<"U+0420">>, FALSE>>, <<"Re", <<"U+211C">>, FALSE>>,
    <<"ReverseElement", <<"U+220B">>, FALSE>>,
    <<"ReverseEquilibrium", <<"U+21CB">>, FALSE>>,
    <<"ReverseUpEquilibrium", <<"U+296F">>, FALSE>>,
    <<"Rfr", <<"U+211C">>, FALSE>>, <<"Rho", <<"U+03A1">>, FALSE>>,
    <<"RightAngleBracket", <<"U+27E9">>, FALSE>>,
    <<"RightArrow", <<"U+2192">>, FALSE>>,
    <<"RightArrowBar", <<"U+21E5">>, FALSE>>,
    <<"RightArrowLeftArrow", <<"U+21C4">>, FALSE>>,
    <<"RightCeiling", <<"U+2309">>, FALSE>>,
    <<"RightDoubleBracket", <<"U+27E7">>, FALSE>>,
    <<"RightDownTeeVector", <<"U+295D">>, FALSE>>,
    <<"RightDownVector", <<"U+21C2">>, FALSE>>,
    <<"RightDownVectorBar", <<"U+2955">>, FALSE>>,
    <<"RightFloor", <<"U+230B">>, FALSE>>,
    <<"RightTee", <<"U+22A2">>, FALSE>>,
    <<"RightTeeArrow", <<"U+21A6">>, FALSE>>,
    <<"RightTeeVector", <<"U+295B">>, FALSE>>,
    <<"RightTriangle", <<"U+22B3">>, FALSE>>,
    <<"RightTriangleBar", <<"U+29D0">>, FALSE>>,
    <<"RightTriangleEqual", <<"U+22B5">>, FALSE>>,
    <<"RightUpDownVector", <<"U+294F">>, FALSE>>,
    <<"RightUpTeeVector", <<"U+295C">>, FALSE>>,
    <<"RightUpVector", <<"U+21BE">>, FALSE>>,
    <<"RightUpVectorBar", <<"U+2954">>, FALSE>>,
    <<"RightVector", <<"U+21C0">>, FALSE>>,
    <<"RightVectorBar", <<"U+2953">>, FALSE>>,
    <<"Rightarrow", <<"U+21D2">>, FALSE>>, <<"Ropf", <<"U+211D">>, FALSE>>,
    <<"RoundImplies", <<"U+2970">>, FALSE>>,
    <<"Rrightarrow", <<"U+21DB">>, FALSE>>, <<"Rscr", <<"U+211B">>, FALSE>>,
    <<"Rsh", <<"U+21B1">>, FALSE>>, <<"RuleDelayed", <<"U+29F4">>, FALSE>>,
    <<"SHCHcy", <<"U+0429">>, FALSE>>, <<"SHcy", <<"U+0428">>, FALSE>>,
    <<"SOFTcy", <<"U+042C">>, FALSE>>, <<"Sacute", <<"U+015A">>, FALSE>>,
    <<"Sc", <<"U+2ABC">>, FALSE>>, <<"Scaron", <<"U+0160">>, FALSE>>,
    <<"Scedil", <<"U+015E">>, FALSE>>, <<"Scirc", <<"U+015C">>, FALSE>>,
    <<"Scy", <<"U+0421">>, FALSE>>, <<"Sfr", <<"U+1D516">>, FALSE>>,
    <<"ShortDownArrow", <<"U+2193">>, FALSE>>,
    <<"ShortLeftArrow", <<"U+2190">>, FALSE>>,
    <<"ShortRightArrow", <<"U+2192">>, FALSE>>,
    <<"ShortUpArrow", <<"U+2191">>, FALSE>>,
    <<"Sigma", <<"U+03A3">>, FALSE>>, <<"SmallCircle", <<"U+2218">>, FALSE>>,
    <<"Sopf", <<"U+1D54A">>, FALSE>>, <<"Sqrt", <<"U+221A">>, FALSE>>,
    <<"Square", <<"U+25A1">>, FALSE>>,
    <<"SquareIntersection", <<"U+2293">>, FALSE>>,
    <<"SquareSubset", <<"U+228F">>, FALSE>>,
    <<"SquareSubsetEqual", <<"U+2291">>, FALSE>>,
    <<"SquareSuperset", <<"U+2290">>, FALSE>>,
    <<"SquareSupersetEqual", <<"U+2292">>, FALSE>>,
    <<"SquareUnion", <<"U+2294">>, FALSE>>, <<"Sscr", <<"U+1D4AE">>, FALSE>>,
    <<"Star", <<"U+22C6">>, FALSE>>, <<"Sub", <<"U+22D0">>, FALSE>>,
    <<"Subset", <<"U+22D0">>, FALSE>>,
    <<"SubsetEqual", <<"U+2286">>, FALSE>>,
    <<"Succeeds", <<"U+227B">>, FALSE>>,
    <<"SucceedsEqual", <<"U+2AB0">>, FALSE>>,
    <<"SucceedsSlantEqual", <<"U+227D">>, FALSE>>,
    <<"SucceedsTilde", <<"U+227F">>, FALSE>>,
    <<"SuchThat", <<"U+220B">>, FALSE>>, <<"Sum", <<"U+2211">>, FALSE>>,
    <<"Sup", <<"U+22D1">>, FALSE>>, <<"Superset", <<"U+2283">>, FALSE>>,
    <<"SupersetEqual", <<"U+2287">>, FALSE>>,
    <<"Supset", <<"U+22D1">>, FALSE>>, <<"THORN", <<"U+00DE">>, TRUE>>,
    <<"TRADE", <<"U+2122">>, FALSE>>, <<"TSHcy", <<"U+040B">>, FALSE>>,
    <<"TScy", <<"U+0426">>, FALSE>>, <<"Tab", <<"\t">>, FALSE>>,
    <<"Tau", <<"U+03A4">>, FALSE>>, <<"Tcaron", <<"U+0164">>, FALSE>>,
    <<"Tcedil", <<"U+0162">>, FALSE>>, <<"Tcy", <<"U+0422">>, FALSE>>,
    <<"Tfr", <<"U+1D517">>, FALSE>>, <<"Therefore", <<"U+2234">>, FALSE>>,
    <<"Theta", <<"U+0398">>, FALSE>>,
    <<"ThickSpace", <<"U+205F", "U+200A">>, FALSE>>,
    <<"ThinSpace", <<"U+2009">>, FALSE>>, <<"Tilde", <<"U+223C">>, FALSE>>,
    <<"TildeEqual", <<"U+2243">>, FALSE>>,
    <<"TildeFullEqual", <<"U+2245">>, FALSE>>,
    <<"TildeTilde", <<"U+2248">>, FALSE>>, <<"Topf", <<"U+1D54B">>, FALSE>>,
    <<"TripleDot", <<"U+20DB">>, FALSE>>, <<"Tscr", <<"U+1D4AF">>, FALSE>>,
    <<"Tstrok", <<"U+0166">>, FALSE>>, <<"Uacute", <<"U+00DA">>, TRUE>>,
    <<"Uarr", <<"U+219F">>, FALSE>>, <<"Uarrocir", <<"U+2949">>, FALSE>>,
    <<"Ubrcy", <<"U+040E">>, FALSE>>, <<"Ubreve", <<"U+016C">>, FALSE>>,
    <<"Ucirc", <<"U+00DB">>, TRUE>>, <<"Ucy", <<"U+0423">>, FALSE>>,
    <<"Udblac", <<"U+0170">>, FALSE>>, <<"Ufr", <<"U+1D518">>, FALSE>>,
    <<"Ugrave", <<"U+00D9">>, TRUE>>, <<"Umacr", <<"U+016A">>, FALSE>>,
    <<"UnderBar", <<"_">>, FALSE>>, <<"UnderBrace", <<"U+23DF">>, FALSE>>,
    <<"UnderBracket", <<"U+23B5">>, FALSE>>,
    <<"UnderParenthesis", <<"U+23DD">>, FALSE>>,
    <<"Union", <<"U+22C3">>, FALSE>>, <<"UnionPlus", <<"U+228E">>, FALSE>>,
    <<"Uogon", <<"U+0172">>, FALSE>>, <<"Uopf", <<"U+1D54C">>, FALSE>>,
    <<"UpArrow", <<"U+2191">>, FALSE>>,
    <<"UpArrowBar", <<"U+2912">>, FALSE>>,
    <<"UpArrowDownArrow", <<"U+21C5">>, FALSE>>,
    <<"UpDownArrow", <<"U+2195">>, FALSE>>,
    <<"UpEquilibrium", <<"U+296E">>, FALSE>>,
    <<"UpTee", <<"U+22A5">>, FALSE>>, <<"UpTeeArrow", <<"U+21A5">>, FALSE>>,
    <<"Uparrow", <<"U+21D1">>, FALSE>>,
    <<"Updownarrow", <<"U+21D5">>, FALSE>>,
    <<"UpperLeftArrow", <<"U+2196">>, FALSE>>,
    <<"UpperRightArrow", <<"U+2197">>, FALSE>>,
    <<"Upsi", <<"U+03D2">>, FALSE>>, <<"Upsilon", <<"U+03A5">>, FALSE>>,
    <<"Uring", <<"U+016E">>, FALSE>>, <<"Uscr", <<"U+1D4B0">>, FALSE>>,
    <<"Utilde", <<"U+0168">>, FALSE>>, <<"Uuml", <<"U+00DC">>, TRUE>>,
    <<"VDash", <<"U+22AB">>, FALSE>>, <<"Vbar", <<"U+2AEB">>, FALSE>>,
    <<"Vcy", <<"U+0412">>, FALSE>>, <<"Vdash", <<"U+22A9">>, FALSE>>,
    <<"Vdashl", <<"U+2AE6">>, FALSE>>, <<"Vee", <<"U+22C1">>, FALSE>>,
    <<"Verbar", <<"U+2016">>, FALSE>>, <<"Vert", <<"U+2016">>, FALSE>>,
    <<"VerticalBar", <<"U+2223">>, FALSE>>,
    <<"VerticalLine", <<"|">>, FALSE>>,
    <<"VerticalSeparator", <<"U+2758">>, FALSE>>,
    <<"VerticalTilde", <<"U+2240">>, FALSE>>,
    <<"VeryThinSpace", <<"U+200A">>, FALSE>>,
    <<"Vfr", <<"U+1D519">>, FALSE>>, <<"Vopf", <<"U+1D54D">>, FALSE>>,
    <<"Vscr", <<"U+1D4B1">>, FALSE>>, <<"Vvdash", <<"U+22AA">>, FALSE>>,
    <<"Wcirc", <<"U+0174">>, FALSE>>, <<"Wedge", <<"U+22C0">>, FALSE>>,
    <<"Wfr", <<"U+1D51A">>, FALSE>>, <<"Wopf", <<"U+1D54E">>, FALSE>>,
    <<"Wscr", <<"U+1D4B2">>, FALSE>>, <<"Xfr", <<"U+1D51B">>, FALSE>>,
    <<"Xi", <<"U+039E">>, FALSE>>, <<"Xopf", <<"U+1D54F">>, FALSE>>,
    <<"Xscr", <<"U+1D4B3">>, FALSE>>, <<"YAcy", <<"U+042F">>, FALSE>>,
    <<"YIcy", <<"U+0407">>, FALSE>>, <<"YUcy", <<"U+042E">>, FALSE>>,
    <<"Yacute", <<"U+00DD">>, TRUE>>, <<"Ycirc", <<"U+0176">>, FALSE>>,
    <<"Ycy", <<"U+042B">>, FALSE>>, <<"Yfr", <<"U+1D51C">>, FALSE>>,
    <<"Yopf", <<"U+1D550">>, FALSE>>, <<"Yscr", <<"U+1D4B4">>, FALSE>>,
    <<"Yuml", <<"U+0178">>, FALSE>>, <<"ZHcy", <<"U+0416">>, FALSE>>,
    <<"Zacute", <<"U+0179">>, FALSE>>, <<"Zcaron", <<"U+017D">>, FALSE>>,
    <<"Zcy", <<"U+0417">>, FALSE>>, <<"Zdot", <<"U+017B">>, FALSE>>,
    <<"ZeroWidthSpace", <<"U+200B">>, FALSE>>,
    <<"Zeta", <<"U+0396">>, FALSE>>, <<"Zfr", <<"U+2128">>, FALSE>>,
    <<"Zopf", <<"U+2124">>, FALSE>>, <<"Zscr", <<"U+1D4B5">>, FALSE>>,
    <<"aacute", <<"U+00E1">>, TRUE>>, <<"abreve", <<"U+0103">>, FALSE>>,
    <<"ac", <<"U+223E">>, FALSE>>, <<"acE", <<"U+223E", "U+0333">>, FALSE>>,
    <<"acd", <<"U+223F">>, FALSE>>, <<"acirc", <<"U+00E2">>, TRUE>>,
    <<"acute", <<"U+00B4">>, TRUE>>, <<"acy", <<"U+0430">>, FALSE>>,
    <<"aelig", <<"U+00E6">>, TRUE>>, <<"af", <<"U+2061">>, FALSE>>,
    <<"afr", <<"U+1D51E">>, FALSE>>, <<"agrave", <<"U+00E0">>, TRUE>>,
    <<"alefsym", <<"U+2135">>, FALSE>>, <<"aleph", <<"U+2135">>, FALSE>>,
    <<"alpha", <<"U+03B1">>, FALSE>>, <<"amacr", <<"U+0101">>, FALSE>>,
    <<"amalg", <<"U+2A3F">>, FALSE>>, <<"amp", <<"&">>, TRUE>>,
    <<"and", <<"U+2227">>, FALSE>>, <<"andand", <<"U+2A55">>, FALSE>>,
    <<"andd", <<"U+2A5C">>, FALSE>>, <<"andslope", <<"U+2A58">>, FALSE>>,
    <<"andv", <<"U+2A5A">>, FALSE>>, <<"ang", <<"U+2220">>, FALSE>>,
    <<"ange", <<"U+29A4">>, FALSE>>, <<"angle", <<"U+2220">>, FALSE>>,
    <<"angmsd", <<"U+2221">>, FALSE>>, <<"angmsdaa", <<"U+29A8">>, FALSE>>,
    <<"angmsdab", <<"U+29A9">>, FALSE>>, <<"angmsdac", <<"U+29AA">>, FALSE>>,
    <<"angmsdad", <<"U+29AB">>, FALSE>>, <<"angmsdae", <<"U+29AC">>, FALSE>>,
    <<"angmsdaf", <<"U+29AD">>, FALSE>>, <<"angmsdag", <<"U+29AE">>, FALSE>>,
    <<"angmsdah", <<"U+29AF">>, FALSE>>, <<"angrt", <<"U+221F">>, FALSE>>,
    <<"angrtvb", <<"U+22BE">>, FALSE>>, <<"angrtvbd", <<"U+299D">>, FALSE>>,
    <<"angsph", <<"U+2222">>, FALSE>>, <<"angst", <<"U+00C5">>, FALSE>>,
    <<"angzarr", <<"U+237C">>, FALSE>>, <<"aogon", <<"U+0105">>, FALSE>>,
    <<"aopf", <<"U+1D552">>, FALSE>>, <<"ap", <<"U+2248">>, FALSE>>,
    <<"apE", <<"U+2A70">>, FALSE>>, <<"apacir", <<"U+2A6F">>, FALSE>>,
    <<"ape", <<"U+224A">>, FALSE>>, <<"apid", <<"U+224B">>, FALSE>>,
    <<"apos", <<"'">>, FALSE>>, <<"approx", <<"U+2248">>, FALSE>>,
    <<"approxeq", <<"U+224A">>, FALSE>>, <<"aring", <<"U+00E5">>, TRUE>>,
    <<"ascr", <<"U+1D4B6">>, FALSE>>, <<"ast", <<"*">>, FALSE>>,
    <<"asymp", <<"U+2248">>, FALSE>>, <<"asympeq", <<"U+224D">>, FALSE>>,
    <<"atilde", <<"U+00E3">>, TRUE>>, <<"auml", <<"U+00E4">>, TRUE>>,
    <<"awconint", <<"U+2233">>, FALSE>>, <<"awint", <<"U+2A11">>, FALSE>>,
    <<"bNot", <<"U+2AED">>, FALSE>>, <<"backcong", <<"U+224C">>, FALSE>>,
    <<"backepsilon", <<"U+03F6">>, FALSE>>,
    <<"backprime", <<"U+2035">>, FALSE>>, <<"backsim", <<"U+223D">>, FALSE>>,
    <<"backsimeq", <<"U+22CD">>, FALSE>>, <<"barvee", <<"U+22BD">>, FALSE>>,
    <<"barwed", <<"U+2305">>, FALSE>>, <<"barwedge", <<"U+2305">>, FALSE>>,
    <<"bbrk", <<"U+23B5">>, FALSE>>, <<"bbrktbrk", <<"U+23B6">>, FALSE>>,
    <<"bcong", <<"U+224C">>, FALSE>>, <<"bcy", <<"U+0431">>, FALSE>>,
    <<"bdquo", <<"U+201E">>, FALSE>>, <<"becaus", <<"U+2235">>, FALSE>>,
    <<"because", <<"U+2235">>, FALSE>>, <<"bemptyv", <<"U+29B0">>, FALSE>>,
    <<"bepsi", <<"U+03F6">>, FALSE>>, <<"bernou", <<"U+212C">>, FALSE>>,
    <<"beta", <<"U+03B2">>, FALSE>>, <<"beth", <<"U+2136">>, FALSE>>,
    <<"between", <<"U+226C">>, FALSE>>, <<"bfr", <<"U+1D51F">>, FALSE>>,
    <<"bigcap", <<"U+22C2">>, FALSE>>, <<"bigcirc", <<"U+25EF">>, FALSE>>,
    <<"bigcup", <<"U+22C3">>, FALSE>>, <<"bigodot", <<"U+2A00">>, FALSE>>,
    <<"bigoplus", <<"U+2A01">>, FALSE>>,
    <<"bigotimes", <<"U+2A02">>, FALSE>>,
    <<"bigsqcup", <<"U+2A06">>, FALSE>>, <<"bigstar", <<"U+2605">>, FALSE>>,
    <<"bigtriangledown", <<"U+25BD">>, FALSE>>,
    <<"bigtriangleup", <<"U+25B3">>, FALSE>>,
    <<"biguplus", <<"U+2A04">>, FALSE>>, <<"bigvee", <<"U+22C1">>, FALSE>>,
    <<"bigwedge", <<"U+22C0">>, FALSE>>, <<"bkarow", <<"U+290D">>, FALSE>>,
    <<"blacklozenge", <<"U+29EB">>, FALSE>>,
    <<"blacksquare", <<"U+25AA">>, FALSE>>,
    <<"blacktriangle", <<"U+25B4">>, FALSE>>,
    <<"blacktriangledown", <<"U+25BE">>, FALSE>>,
    <<"blacktriangleleft", <<"U+25C2">>, FALSE>>,
    <<"blacktriangleright", <<"U+25B8">>, FALSE>>,
    <<"blank", <<"U+2423">>, FALSE>>, <<"blk12", <<"U+2592">>, FALSE>>,
    <<"blk14", <<"U+2591">>, FALSE>>, <<"blk34", <<"U+2593">>, FALSE>>,
    <<"block", <<"U+2588">>, FALSE>>, <<"bne", <<"=", "U+20E5">>, FALSE>>,
    <<"bnequiv", <<"U+2261", "U+20E5">>, FALSE>>,
    <<"bnot", <<"U+2310">>, FALSE>>, <<"bopf", <<"U+1D553">>, FALSE>>,
    <<"bot", <<"U+22A5">>, FALSE>>, <<"bottom", <<"U+22A5">>, FALSE>>,
    <<"bowtie", <<"U+22C8">>, FALSE>>, <<"boxDL", <<"U+2557">>, FALSE>>,
    <<"boxDR", <<"U+2554">>, FALSE>>, <<"boxDl", <<"U+2556">>, FALSE>>,
    <<"boxDr", <<"U+2553">>, FALSE>>, <<"boxH", <<"U+2550">>, FALSE>>,
    <<"boxHD", <<"U+2566">>, FALSE>>, <<"boxHU", <<"U+2569">>, FALSE>>,
    <<"boxHd", <<"U+2564">>, FALSE>>, <<"boxHu", <<"U+2567">>, FALSE>>,
    <<"boxUL", <<"U+255D">>, FALSE>>, <<"boxUR", <<"U+255A">>, FALSE>>,
    <<"boxUl", <<"U+255C">>, FALSE>>, <<"boxUr", <<"U+2559">>, FALSE>>,
    <<"boxV", <<"U+2551">>, FALSE>>, <<"boxVH", <<"U+256C">>, FALSE>>,
    <<"boxVL", <<"U+2563">>, FALSE>>, <<"boxVR", <<"U+2560">>, FALSE>>,
    <<"boxVh", <<"U+256B">>, FALSE>>, <<"boxVl", <<"U+2562">>, FALSE>>,
    <<"boxVr", <<"U+255F">>, FALSE>>, <<"boxbox", <<"U+29C9">>, FALSE>>,
    <<"boxdL", <<"U+2555">>, FALSE>>, <<"boxdR", <<"U+2552">>, FALSE>>,
    <<"boxdl", <<"U+2510">>, FALSE>>, <<"boxdr", <<"U+250C">>, FALSE>>,
    <<"boxh", <<"U+2500">>, FALSE>>, <<"boxhD", <<"U+2565">>, FALSE>>,
    <<"boxhU", <<"U+2568">>, FALSE>>, <<"boxhd", <<"U+252C">>, FALSE>>,
    <<"boxhu", <<"U+2534">>, FALSE>>, <<"boxminus", <<"U+229F">>, FALSE>>,
    <<"boxplus", <<"U+229E">>, FALSE>>, <<"boxtimes", <<"U+22A0">>, FALSE>>,
    <<"boxuL", <<"U+255B">>, FALSE>>, <<"boxuR", <<"U+2558">>, FALSE>>,
    <<"boxul", <<"U+2518">>, FALSE>>, <<"boxur", <<"U+2514">>, FALSE>>,
    <<"boxv", <<"U+2502">>, FALSE>>, <<"boxvH", <<"U+256A">>, FALSE>>,
    <<"boxvL", <<"U+2561">>, FALSE>>, <<"boxvR", <<"U+255E">>, FALSE>>,
    <<"boxvh", <<"U+253C">>, FALSE>>, <<"boxvl", <<"U+2524">>, FALSE>>,
    <<"boxvr", <<"U+251C">>, FALSE>>, <<"bprime", <<"U+2035">>, FALSE>>,
    <<"breve", <<"U+02D8">>, FALSE>>, <<"brvbar", <<"U+00A6">>, TRUE>>,
    <<"bscr", <<"U+1D4B7">>, FALSE>>, <<"bsemi", <<"U+204F">>, FALSE>>,
    <<"bsim", <<"U+223D">>, FALSE>>, <<"bsime", <<"U+22CD">>, FALSE>>,
    <<"bsol", <<"\\">>, FALSE>>, <<"bsolb", <<"U+29C5">>, FALSE>>,
    <<"bsolhsub", <<"U+27C8">>, FALSE>>, <<"bull", <<"U+2022">>, FALSE>>,
    <<"bullet", <<"U+2022">>, FALSE>>, <<"bump", <<"U+224E">>, FALSE>>,
    <<"bumpE", <<"U+2AAE">>, FALSE>>, <<"bumpe", <<"U+224F">>, FALSE>>,
    <<"bumpeq", <<"U+224F">>, FALSE>>, <<"cacute", <<"U+0107">>, FALSE>>,
    <<"cap", <<"U+2229">>, FALSE>>, <<"capand", <<"U+2A44">>, FALSE>>,
    <<"capbrcup", <<"U+2A49">>, FALSE>>, <<"capcap", <<"U+2A4B">>, FALSE>>,
    <<"capcup", <<"U+2A47">>, FALSE>>, <<"capdot", <<"U+2A40">>, FALSE>>,
    <<"caps", <<"U+2229", "U+FE00">>, FALSE>>,
    <<"caret", <<"U+2041">>, FALSE>>, <<"caron", <<"U+02C7">>, FALSE>>,
    <<"ccaps", <<"U+2A4D">>, FALSE>>, <<"ccaron", <<"U+010D">>, FALSE>>,
    <<"ccedil", <<"U+00E7">>, TRUE>>, <<"ccirc", <<"U+0109">>, FALSE>>,
    <<"ccups", <<"U+2A4C">>, FALSE>>, <<"ccupssm", <<"U+2A50">>, FALSE>>,
    <<"cdot", <<"U+010B">>, FALSE>>, <<"cedil", <<"U+00B8">>, TRUE>>,
    <<"cemptyv", <<"U+29B2">>, FALSE>>, <<"cent", <<"U+00A2">>, TRUE>>,
    <<"centerdot", <<"U+00B7">>, FALSE>>, <<"cfr", <<"U+1D520">>, FALSE>>,
    <<"chcy", <<"U+0447">>, FALSE>>, <<"check", <<"U+2713">>, FALSE>>,
    <<"checkmark", <<"U+2713">>, FALSE>>, <<"chi", <<"U+03C7">>, FALSE>>,
    <<"cir", <<"U+25CB">>, FALSE>>, <<"cirE", <<"U+29C3">>, FALSE>>,
    <<"circ", <<"U+02C6">>, FALSE>>, <<"circeq", <<"U+2257">>, FALSE>>,
    <<"circlearrowleft", <<"U+21BA">>, FALSE>>,
    <<"circlearrowright", <<"U+21BB">>, FALSE>>,
    <<"circledR", <<"U+00AE">>, FALSE>>, <<"circledS", <<"U+24C8">>, FALSE>>,
    <<"circledast", <<"U+229B">>, FALSE>>,
    <<"circledcirc", <<"U+229A">>, FALSE>>,
    <<"circleddash", <<"U+229D">>, FALSE>>, <<"cire", <<"U+2257">>, FALSE>>,
    <<"cirfnint", <<"U+2A10">>, FALSE>>, <<"cirmid", <<"U+2AEF">>, FALSE>>,
    <<"cirscir", <<"U+29C2">>, FALSE>>, <<"clubs", <<"U+2663">>, FALSE>>,
    <<"clubsuit", <<"U+2663">>, FALSE>>, <<"colon", <<":">>, FALSE>>,
    <<"colone", <<"U+2254">>, FALSE>>, <<"coloneq", <<"U+2254">>, FALSE>>,
    <<"comma", <<",">>, FALSE>>, <<"commat", <<"@">>, FALSE>>,
    <<"comp", <<"U+2201">>, FALSE>>, <<"compfn", <<"U+2218">>, FALSE>>,
    <<"complement", <<"U+2201">>, FALSE>>,
    <<"complexes", <<"U+2102">>, FALSE>>, <<"cong", <<"U+2245">>, FALSE>>,
    <<"congdot", <<"U+2A6D">>, FALSE>>, <<"conint", <<"U+222E">>, FALSE>>,
    <<"copf", <<"U+1D554">>, FALSE>>, <<"coprod", <<"U+2210">>, FALSE>>,
    <<"copy", <<"U+00A9">>, TRUE>>, <<"copysr", <<"U+2117">>, FALSE>>,
    <<"crarr", <<"U+21B5">>, FALSE>>, <<"cross", <<"U+2717">>, FALSE>>,
    <<"cscr", <<"U+1D4B8">>, FALSE>>, <<"csub", <<"U+2ACF">>, FALSE>>,
    <<"csube", <<"U+2AD1">>, FALSE>>, <<"csup", <<"U+2AD0">>, FALSE>>,
    <<"csupe", <<"U+2AD2">>, FALSE>>, <<"ctdot", <<"U+22EF">>, FALSE>>,
    <<"cudarrl", <<"U+2938">>, FALSE>>, <<"cudarrr", <<"U+2935">>, FALSE>>,
    <<"cuepr", <<"U+22DE">>, FALSE>>, <<"cuesc", <<"U+22DF">>, FALSE>>,
    <<"cularr", <<"U+21B6">>, FALSE>>, <<"cularrp", <<"U+293D">>, FALSE>>,
    <<"cup", <<"U+222A">>, FALSE>>, <<"cupbrcap", <<"U+2A48">>, FALSE>>,
    <<"cupcap", <<"U+2A46">>, FALSE>>, <<"cupcup", <<"U+2A4A">>, FALSE>>,
    <<"cupdot", <<"U+228D">>, FALSE>>, <<"cupor", <<"U+2A45">>, FALSE>>,
    <<"cups", <<"U+222A", "U+FE00">>, FALSE>>,
    <<"curarr", <<"U+21B7">>, FALSE>>, <<"curarrm", <<"U+293C">>, FALSE>>,
    <<"curlyeqprec", <<"U+22DE">>, FALSE>>,
    <<"curlyeqsucc", <<"U+22DF">>, FALSE>>,
    <<"curlyvee", <<"U+22CE">>, FALSE>>,
    <<"curlywedge", <<"U+22CF">>, FALSE>>, <<"curren", <<"U+00A4">>, TRUE>>,
    <<"curvearrowleft", <<"U+21B6">>, FALSE>>,
    <<"curvearrowright", <<"U+21B7">>, FALSE>>,
    <<"cuvee", <<"U+22CE">>, FALSE>>, <<"cuwed", <<"U+22CF">>, FALSE>>,
    <<"cwconint", <<"U+2232">>, FALSE>>, <<"cwint", <<"U+2231">>, FALSE>>,
    <<"cylcty", <<"U+232D">>, FALSE>>, <<"dArr", <<"U+21D3">>, FALSE>>,
    <<"dHar", <<"U+2965">>, FALSE>>, <<"dagger", <<"U+2020">>, FALSE>>,
    <<"daleth", <<"U+2138">>, FALSE>>, <<"darr", <<"U+2193">>, FALSE>>,
    <<"dash", <<"U+2010">>, FALSE>>, <<"dashv", <<"U+22A3">>, FALSE>>,
    <<"dbkarow", <<"U+290F">>, FALSE>>, <<"dblac", <<"U+02DD">>, FALSE>>,
    <<"dcaron", <<"U+010F">>, FALSE>>, <<"dcy", <<"U+0434">>, FALSE>>,
    <<"dd", <<"U+2146">>, FALSE>>, <<"ddagger", <<"U+2021">>, FALSE>>,
    <<"ddarr", <<"U+21CA">>, FALSE>>, <<"ddotseq", <<"U+2A77">>, FALSE>>,
    <<"deg", <<"U+00B0">>, TRUE>>, <<"delta", <<"U+03B4">>, FALSE>>,
    <<"demptyv", <<"U+29B1">>, FALSE>>, <<"dfisht", <<"U+297F">>, FALSE>>,
    <<"dfr", <<"U+1D521">>, FALSE>>, <<"dharl", <<"U+21C3">>, FALSE>>,
    <<"dharr", <<"U+21C2">>, FALSE>>, <<"diam", <<"U+22C4">>, FALSE>>,
    <<"diamond", <<"U+22C4">>, FALSE>>,
    <<"diamondsuit", <<"U+2666">>, FALSE>>, <<"diams", <<"U+2666">>, FALSE>>,
    <<"die", <<"U+00A8">>, FALSE>>, <<"digamma", <<"U+03DD">>, FALSE>>,
    <<"disin", <<"U+22F2">>, FALSE>>, <<"div", <<"U+00F7">>, FALSE>>,
    <<"divide", <<"U+00F7">>, TRUE>>,
    <<"divideontimes", <<"U+22C7">>, FALSE>>,
    <<"divonx", <<"U+22C7">>, FALSE>>, <<"djcy", <<"U+0452">>, FALSE>>,
    <<"dlcorn", <<"U+231E">>, FALSE>>, <<"dlcrop", <<"U+230D">>, FALSE>>,
    <<"dollar", <<"$">>, FALSE>>, <<"dopf", <<"U+1D555">>, FALSE>>,
    <<"dot", <<"U+02D9">>, FALSE>>, <<"doteq", <<"U+2250">>, FALSE>>,
    <<"doteqdot", <<"U+2251">>, FALSE>>, <<"dotminus", <<"U+2238">>, FALSE>>,
    <<"dotplus", <<"U+2214">>, FALSE>>, <<"dotsquare", <<"U+22A1">>, FALSE>>,
    <<"doublebarwedge", <<"U+2306">>, FALSE>>,
    <<"downarrow", <<"U+2193">>, FALSE>>,
    <<"downdownarrows", <<"U+21CA">>, FALSE>>,
    <<"downharpoonleft", <<"U+21C3">>, FALSE>>,
    <<"downharpoonright", <<"U+21C2">>, FALSE>>,
    <<"drbkarow", <<"U+2910">>, FALSE>>, <<"drcorn", <<"U+231F">>, FALSE>>,
    <<"drcrop", <<"U+230C">>, FALSE>>, <<"dscr", <<"U+1D4B9">>, FALSE>>,
    <<"dscy", <<"U+0455">>, FALSE>>, <<"dsol", <<"U+29F6">>, FALSE>>,
    <<"dstrok", <<"U+0111">>, FALSE>>, <<"dtdot", <<"U+22F1">>, FALSE>>,
    <<"dtri", <<"U+25BF">>, FALSE>>, <<"dtrif", <<"U+25BE">>, FALSE>>,
    <<"duarr", <<"U+21F5">>, FALSE>>, <<"duhar", <<"U+296F">>, FALSE>>,
    <<"dwangle", <<"U+29A6">>, FALSE>>, <<"dzcy", <<"U+045F">>, FALSE>>,
    <<"dzigrarr", <<"U+27FF">>, FALSE>>, <<"eDDot", <<"U+2A77">>, FALSE>>,
    <<"eDot", <<"U+2251">>, FALSE>>, <<"eacute", <<"U+00E9">>, TRUE>>,
    <<"easter", <<"U+2A6E">>, FALSE>>, <<"ecaron", <<"U+011B">>, FALSE>>,
    <<"ecir", <<"U+2256">>, FALSE>>, <<"ecirc", <<"U+00EA">>, TRUE>>,
    <<"ecolon", <<"U+2255">>, FALSE>>, <<"ecy", <<"U+044D">>, FALSE>>,
    <<"edot", <<"U+0117">>, FALSE>>, <<"ee", <<"U+2147">>, FALSE>>,
    <<"efDot", <<"U+2252">>, FALSE>>, <<"efr", <<"U+1D522">>, FALSE>>,
    <<"eg", <<"U+2A9A">>, FALSE>>, <<"egrave", <<"U+00E8">>, TRUE>>,
    <<"egs", <<"U+2A96">>, FALSE>>, <<"egsdot", <<"U+2A98">>, FALSE>>,
    <<"el", <<"U+2A99">>, FALSE>>, <<"elinters", <<"U+23E7">>, FALSE>>,
    <<"ell", <<"U+2113">>, FALSE>>, <<"els", <<"U+2A95">>, FALSE>>,
    <<"elsdot", <<"U+2A97">>, FALSE>>, <<"emacr", <<"U+0113">>, FALSE>>,
    <<"empty", <<"U+2205">>, FALSE>>, <<"emptyset", <<"U+2205">>, FALSE>>,
    <<"emptyv", <<"U+2205">>, FALSE>>, <<"emsp", <<"U+2003">>, FALSE>>,
    <<"emsp13", <<"U+2004">>, FALSE>>, <<"emsp14", <<"U+2005">>, FALSE>>,
    <<"eng", <<"U+014B">>, FALSE>>, <<"ensp", <<"U+2002">>, FALSE>>,
    <<"eogon", <<"U+0119">>, FALSE>>, <<"eopf", <<"U+1D556">>, FALSE>>,
    <<"epar", <<"U+22D5">>, FALSE>>, <<"eparsl", <<"U+29E3">>, FALSE>>,
    <<"eplus", <<"U+2A71">>, FALSE>>, <<"epsi", <<"U+03B5">>, FALSE>>,
    <<"epsilon", <<"U+03B5">>, FALSE>>, <<"epsiv", <<"U+03F5">>, FALSE>>,
    <<"eqcirc", <<"U+2256">>, FALSE>>, <<"eqcolon", <<"U+2255">>, FALSE>>,
    <<"eqsim", <<"U+2242">>, FALSE>>, <<"eqslantgtr", <<"U+2A96">>, FALSE>>,
    <<"eqslantless", <<"U+2A95">>, FALSE>>, <<"equals", <<"=">>, FALSE>>,
    <<"equest", <<"U+225F">>, FALSE>>, <<"equiv", <<"U+2261">>, FALSE>>,
    <<"equivDD", <<"U+2A78">>, FALSE>>, <<"eqvparsl", <<"U+29E5">>, FALSE>>,
    <<"erDot", <<"U+2253">>, FALSE>>, <<"erarr", <<"U+2971">>, FALSE>>,
    <<"escr", <<"U+212F">>, FALSE>>, <<"esdot", <<"U+2250">>, FALSE>>,
    <<"esim", <<"U+2242">>, FALSE>>, <<"eta", <<"U+03B7">>, FALSE>>,
    <<"eth", <<"U+00F0">>, TRUE>>, <<"euml", <<"U+00EB">>, TRUE>>,
    <<"euro", <<"U+20AC">>, FALSE>>, <<"excl", <<"!">>, FALSE>>,
    <<"exist", <<"U+2203">>, FALSE>>, <<"expectation", <<"U+2130">>, FALSE>>,
    <<"exponentiale", <<"U+2147">>, FALSE>>,
    <<"fallingdotseq", <<"U+2252">>, FALSE>>, <<"fcy", <<"U+0444">>, FALSE>>,
    <<"female", <<"U+2640">>, FALSE>>, <<"ffilig", <<"U+FB03">>, FALSE>>,
    <<"fflig", <<"U+FB00">>, FALSE>>, <<"ffllig", <<"U+FB04">>, FALSE>>,
    <<"ffr", <<"U+1D523">>, FALSE>>, <<"filig", <<"U+FB01">>, FALSE>>,
    <<"fjlig", <<"f", "j">>, FALSE>>, <<"flat", <<"U+266D">>, FALSE>>,
    <<"fllig", <<"U+FB02">>, FALSE>>, <<"fltns", <<"U+25B1">>, FALSE>>,
    <<"fnof", <<"U+0192">>, FALSE>>, <<"fopf", <<"U+1D557">>, FALSE>>,
    <<"forall", <<"U+2200">>, FALSE>>, <<"fork", <<"U+22D4">>, FALSE>>,
    <<"forkv", <<"U+2AD9">>, FALSE>>, <<"fpartint", <<"U+2A0D">>, FALSE>>,
    <<"frac12", <<"U+00BD">>, TRUE>>, <<"frac13", <<"U+2153">>, FALSE>>,
    <<"frac14", <<"U+00BC">>, TRUE>>, <<"frac15", <<"U+2155">>, FALSE>>,
    <<"frac16", <<"U+2159">>, FALSE>>, <<"frac18", <<"U+215B">>, FALSE>>,
    <<"frac23", <<"U+2154">>, FALSE>>, <<"frac25", <<"U+2156">>, FALSE>>,
    <<"frac34", <<"U+00BE">>, TRUE>>, <<"frac35", <<"U+2157">>, FALSE>>,
    <<"frac38", <<"U+215C">>, FALSE>>, <<"frac45", <<"U+2158">>, FALSE>>,
    <<"frac56", <<"U+215A">>, FALSE>>, <<"frac58", <<"U+215D">>, FALSE>>,
    <<"frac78", <<"U+215E">>, FALSE>>, <<"frasl", <<"U+2044">>, FALSE>>,
    <<"frown", <<"U+2322">>, FALSE>>, <<"fscr", <<"U+1D4BB">>, FALSE>>,
    <<"gE", <<"U+2267">>, FALSE>>, <<"gEl", <<"U+2A8C">>, FALSE>>,
    <<"gacute", <<"U+01F5">>, FALSE>>, <<"gamma", <<"U+03B3">>, FALSE>>,
    <<"gammad", <<"U+03DD">>, FALSE>>, <<"gap", <<"U+2A86">>, FALSE>>,
    <<"gbreve", <<"U+011F">>, FALSE>>, <<"gcirc", <<"U+011D">>, FALSE>>,
    <<"gcy", <<"U+0433">>, FALSE>>, <<"gdot", <<"U+0121">>, FALSE>>,
    <<"ge", <<"U+2265">>, FALSE>>, <<"gel", <<"U+22DB">>, FALSE>>,
    <<"geq", <<"U+2265">>, FALSE>>, <<"geqq", <<"U+2267">>, FALSE>>,
    <<"geqslant", <<"U+2A7E">>, FALSE>>, <<"ges", <<"U+2A7E">>, FALSE>>,
    <<"gescc", <<"U+2AA9">>, FALSE>>, <<"gesdot", <<"U+2A80">>, FALSE>>,
    <<"gesdoto", <<"U+2A82">>, FALSE>>, <<"gesdotol", <<"U+2A84">>, FALSE>>,
    <<"gesl", <<"U+22DB", "U+FE00">>, FALSE>>,
    <<"gesles", <<"U+2A94">>, FALSE>>, <<"gfr", <<"U+1D524">>, FALSE>>,
    <<"gg", <<"U+226B">>, FALSE>>, <<"ggg", <<"U+22D9">>, FALSE>>,
    <<"gimel", <<"U+2137">>, FALSE>>, <<"gjcy", <<"U+0453">>, FALSE>>,
    <<"gl", <<"U+2277">>, FALSE>>, <<"glE", <<"U+2A92">>, FALSE>>,
    <<"gla", <<"U+2AA5">>, FALSE>>, <<"glj", <<"U+2AA4">>, FALSE>>,
    <<"gnE", <<"U+2269">>, FALSE>>, <<"gnap", <<"U+2A8A">>, FALSE>>,
    <<"gnapprox", <<"U+2A8A">>, FALSE>>, <<"gne", <<"U+2A88">>, FALSE>>,
    <<"gneq", <<"U+2A88">>, FALSE>>, <<"gneqq", <<"U+2269">>, FALSE>>,
    <<"gnsim", <<"U+22E7">>, FALSE>>, <<"gopf", <<"U+1D558">>, FALSE>>,
    <<"grave", <<"U+0060">>, FALSE>>, <<"gscr", <<"U+210A">>, FALSE>>,
    <<"gsim", <<"U+2273">>, FALSE>>, <<"gsime", <<"U+2A8E">>, FALSE>>,
    <<"gsiml", <<"U+2A90">>, FALSE>>, <<"gt", <<">">>, TRUE>>,
    <<"gtcc", <<"U+2AA7">>, FALSE>>, <<"gtcir", <<"U+2A7A">>, FALSE>>,
    <<"gtdot", <<"U+22D7">>, FALSE>>, <<"gtlPar", <<"U+2995">>, FALSE>>,
    <<"gtquest", <<"U+2A7C">>, FALSE>>, <<"gtrapprox", <<"U+2A86">>, FALSE>>,
    <<"gtrarr", <<"U+2978">>, FALSE>>, <<"gtrdot", <<"U+22D7">>, FALSE>>,
    <<"gtreqless", <<"U+22DB">>, FALSE>>,
    <<"gtreqqless", <<"U+2A8C">>, FALSE>>,
    <<"gtrless", <<"U+2277">>, FALSE>>, <<"gtrsim", <<"U+2273">>, FALSE>>,
    <<"gvertneqq", <<"U+2269", "U+FE00">>, FALSE>>,
    <<"gvnE", <<"U+2269", "U+FE00">>, FALSE>>,
    <<"hArr", <<"U+21D4">>, FALSE>>, <<"hairsp", <<"U+200A">>, FALSE>>,
    <<"half", <<"U+00BD">>, FALSE>>, <<"hamilt", <<"U+210B">>, FALSE>>,
    <<"hardcy", <<"U+044A">>, FALSE>>, <<"harr", <<"U+2194">>, FALSE>>,
    <<"harrcir", <<"U+2948">>, FALSE>>, <<"harrw", <<"U+21AD">>, FALSE>>,
    <<"hbar", <<"U+210F">>, FALSE>>, <<"hcirc", <<"U+0125">>, FALSE>>,
    <<"hearts", <<"U+2665">>, FALSE>>, <<"heartsuit", <<"U+2665">>, FALSE>>,
    <<"hellip", <<"U+2026">>, FALSE>>, <<"hercon", <<"U+22B9">>, FALSE>>,
    <<"hfr", <<"U+1D525">>, FALSE>>, <<"hksearow", <<"U+2925">>, FALSE>>,
    <<"hkswarow", <<"U+2926">>, FALSE>>, <<"hoarr", <<"U+21FF">>, FALSE>>,
    <<"homtht", <<"U+223B">>, FALSE>>,
    <<"hookleftarrow", <<"U+21A9">>, FALSE>>,
    <<"hookrightarrow", <<"U+21AA">>, FALSE>>,
    <<"hopf", <<"U+1D559">>, FALSE>>, <<"horbar", <<"U+2015">>, FALSE>>,
    <<"hscr", <<"U+1D4BD">>, FALSE>>, <<"hslash", <<"U+210F">>, FALSE>>,
    <<"hstrok", <<"U+0127">>, FALSE>>, <<"hybull", <<"U+2043">>, FALSE>>,
    <<"hyphen", <<"U+2010">>, FALSE>>, <<"iacute", <<"U+00ED">>, TRUE>>,
    <<"ic", <<"U+2063">>, FALSE>>, <<"icirc", <<"U+00EE">>, TRUE>>,
    <<"icy", <<"U+0438">>, FALSE>>, <<"iecy", <<"U+0435">>, FALSE>>,
    <<"iexcl", <<"U+00A1">>, TRUE>>, <<"iff", <<"U+21D4">>, FALSE>>,
    <<"ifr", <<"U+1D526">>, FALSE>>, <<"igrave", <<"U+00EC">>, TRUE>>,
    <<"ii", <<"U+2148">>, FALSE>>, <<"iiiint", <<"U+2A0C">>, FALSE>>,
    <<"iiint", <<"U+222D">>, FALSE>>, <<"iinfin", <<"U+29DC">>, FALSE>>,
    <<"iiota", <<"U+2129">>, FALSE>>, <<"ijlig", <<"U+0133">>, FALSE>>,
    <<"imacr", <<"U+012B">>, FALSE>>, <<"image", <<"U+2111">>, FALSE>>,
    <<"imagline", <<"U+2110">>, FALSE>>, <<"imagpart", <<"U+2111">>, FALSE>>,
    <<"imath", <<"U+0131">>, FALSE>>, <<"imof", <<"U+22B7">>, FALSE>>,
    <<"imped", <<"U+01B5">>, FALSE>>, <<"in", <<"U+2208">>, FALSE>>,
    <<"incare", <<"U+2105">>, FALSE>>, <<"infin", <<"U+221E">>, FALSE>>,
    <<"infintie", <<"U+29DD">>, FALSE>>, <<"inodot", <<"U+0131">>, FALSE>>,
    <<"int", <<"U+222B">>, FALSE>>, <<"intcal", <<"U+22BA">>, FALSE>>,
    <<"integers", <<"U+2124">>, FALSE>>, <<"intercal", <<"U+22BA">>, FALSE>>,
    <<"intlarhk", <<"U+2A17">>, FALSE>>, <<"intprod", <<"U+2A3C">>, FALSE>>,
    <<"iocy", <<"U+0451">>, FALSE>>, <<"iogon", <<"U+012F">>, FALSE>>,
    <<"iopf", <<"U+1D55A">>, FALSE>>, <<"iota", <<"U+03B9">>, FALSE>>,
    <<"iprod", <<"U+2A3C">>, FALSE>>, <<"iquest", <<"U+00BF">>, TRUE>>,
    <<"iscr", <<"U+1D4BE">>, FALSE>>, <<"isin", <<"U+2208">>, FALSE>>,
    <<"isinE", <<"U+22F9">>, FALSE>>, <<"isindot", <<"U+22F5">>, FALSE>>,
    <<"isins", <<"U+22F4">>, FALSE>>, <<"isinsv", <<"U+22F3">>, FALSE>>,
    <<"isinv", <<"U+2208">>, FALSE>>, <<"it", <<"U+2062">>, FALSE>>,
    <<"itilde", <<"U+0129">>, FALSE>>, <<"iukcy", <<"U+0456">>, FALSE>>,
    <<"iuml", <<"U+00EF">>, TRUE>>, <<"jcirc", <<"U+0135">>, FALSE>>,
    <<"jcy", <<"U+0439">>, FALSE>>, <<"jfr", <<"U+1D527">>, FALSE>>,
    <<"jmath", <<"U+0237">>, FALSE>>, <<"jopf", <<"U+1D55B">>, FALSE>>,
    <<"jscr", <<"U+1D4BF">>, FALSE>>, <<"jsercy", <<"U+0458">>, FALSE>>,
    <<"jukcy", <<"U+0454">>, FALSE>>, <<"kappa", <<"U+03BA">>, FALSE>>,
    <<"kappav", <<"U+03F0">>, FALSE>>, <<"kcedil", <<"U+0137">>, FALSE>>,
    <<"kcy", <<"U+043A">>, FALSE>>, <<"kfr", <<"U+1D528">>, FALSE>>,
    <<"kgreen", <<"U+0138">>, FALSE>>, <<"khcy", <<"U+0445">>, FALSE>>,
    <<"kjcy", <<"U+045C">>, FALSE>>, <<"kopf", <<"U+1D55C">>, FALSE>>,
    <<"kscr", <<"U+1D4C0">>, FALSE>>, <<"lAarr", <<"U+21DA">>, FALSE>>,
    <<"lArr", <<"U+21D0">>, FALSE>>, <<"lAtail", <<"U+291B">>, FALSE>>,
    <<"lBarr", <<"U+290E">>, FALSE>>, <<"lE", <<"U+2266">>, FALSE>>,
    <<"lEg", <<"U+2A8B">>, FALSE>>, <<"lHar", <<"U+2962">>, FALSE>>,
    <<"lacute", <<"U+013A">>, FALSE>>, <<"laemptyv", <<"U+29B4">>, FALSE>>,
    <<"lagran", <<"U+2112">>, FALSE>>, <<"lambda", <<"U+03BB">>, FALSE>>,
    <<"lang", <<"U+27E8">>, FALSE>>, <<"langd", <<"U+2991">>, FALSE>>,
    <<"langle", <<"U+27E8">>, FALSE>>, <<"lap", <<"U+2A85">>, FALSE>>,
    <<"laquo", <<"U+00AB">>, TRUE>>, <<"larr", <<"U+2190">>, FALSE>>,
    <<"larrb", <<"U+21E4">>, FALSE>>, <<"larrbfs", <<"U+291F">>, FALSE>>,
    <<"larrfs", <<"U+291D">>, FALSE>>, <<"larrhk", <<"U+21A9">>, FALSE>>,
    <<"larrlp", <<"U+21AB">>, FALSE>>, <<"larrpl", <<"U+2939">>, FALSE>>,
    <<"larrsim", <<"U+2973">>, FALSE>>, <<"larrtl", <<"U+21A2">>, FALSE>>,
    <<"lat", <<"U+2AAB">>, FALSE>>, <<"latail", <<"U+2919">>, FALSE>>,
    <<"late", <<"U+2AAD">>, FALSE>>,
    <<"lates", <<"U+2AAD", "U+FE00">>, FALSE>>,
    <<"lbarr", <<"U+290C">>, FALSE>>, <<"lbbrk", <<"U+2772">>, FALSE>>,
    <<"lbrace", <<"{">>, FALSE>>, <<"lbrack", <<"[">>, FALSE>>,
    <<"lbrke", <<"U+298B">>, FALSE>>, <<"lbrksld", <<"U+298F">>, FALSE>>,
    <<"lbrkslu", <<"U+298D">>, FALSE>>, <<"lcaron", <<"U+013E">>, FALSE>>,
    <<"lcedil", <<"U+013C">>, FALSE>>, <<"lceil", <<"U+2308">>, FALSE>>,
    <<"lcub", <<"{">>, FALSE>>, <<"lcy", <<"U+043B">>, FALSE>>,
    <<"ldca", <<"U+2936">>, FALSE>>, <<"ldquo", <<"U+201C">>, FALSE>>,
    <<"ldquor", <<"U+201E">>, FALSE>>, <<"ldrdhar", <<"U+2967">>, FALSE>>,
    <<"ldrushar", <<"U+294B">>, FALSE>>, <<"ldsh", <<"U+21B2">>, FALSE>>,
    <<"le", <<"U+2264">>, FALSE>>, <<"leftarrow", <<"U+2190">>, FALSE>>,
    <<"leftarrowtail", <<"U+21A2">>, FALSE>>,
    <<"leftharpoondown", <<"U+21BD">>, FALSE>>,
    <<"leftharpoonup", <<"U+21BC">>, FALSE>>,
    <<"leftleftarrows", <<"U+21C7">>, FALSE>>,
    <<"leftrightarrow", <<"U+2194">>, FALSE>>,
    <<"leftrightarrows", <<"U+21C6">>, FALSE>>,
    <<"leftrightharpoons", <<"U+21CB">>, FALSE>>,
    <<"leftrightsquigarrow", <<"U+21AD">>, FALSE>>,
    <<"leftthreetimes", <<"U+22CB">>, FALSE>>,
    <<"leg", <<"U+22DA">>, FALSE>>, <<"leq", <<"U+2264">>, FALSE>>,
    <<"leqq", <<"U+2266">>, FALSE>>, <<"leqslant", <<"U+2A7D">>, FALSE>>,
    <<"les", <<"U+2A7D">>, FALSE>>, <<"lescc", <<"U+2AA8">>, FALSE>>,
    <<"lesdot", <<"U+2A7F">>, FALSE>>, <<"lesdoto", <<"U+2A81">>, FALSE>>,
    <<"lesdotor", <<"U+2A83">>, FALSE>>,
    <<"lesg", <<"U+22DA", "U+FE00">>, FALSE>>,
    <<"lesges", <<"U+2A93">>, FALSE>>, <<"lessapprox", <<"U+2A85">>, FALSE>>,
    <<"lessdot", <<"U+22D6">>, FALSE>>, <<"lesseqgtr", <<"U+22DA">>, FALSE>>,
    <<"lesseqqgtr", <<"U+2A8B">>, FALSE>>,
    <<"lessgtr", <<"U+2276">>, FALSE>>, <<"lesssim", <<"U+2272">>, FALSE>>,
    <<"lfisht", <<"U+297C">>, FALSE>>, <<"lfloor", <<"U+230A">>, FALSE>>,
    <<"lfr", <<"U+1D529">>, FALSE>>, <<"lg", <<"U+2276">>, FALSE>>,
    <<"lgE", <<"U+2A91">>, FALSE>>, <<"lhard", <<"U+21BD">>, FALSE>>,
    <<"lharu", <<"U+21BC">>, FALSE>>, <<"lharul", <<"U+296A">>, FALSE>>,
    <<"lhblk", <<"U+2584">>, FALSE>>, <<"ljcy", <<"U+0459">>, FALSE>>,
    <<"ll", <<"U+226A">>, FALSE>>, <<"llarr", <<"U+21C7">>, FALSE>>,
    <<"llcorner", <<"U+231E">>, FALSE>>, <<"llhard", <<"U+296B">>, FALSE>>,
    <<"lltri", <<"U+25FA">>, FALSE>>, <<"lmidot", <<"U+0140">>, FALSE>>,
    <<"lmoust", <<"U+23B0">>, FALSE>>, <<"lmoustache", <<"U+23B0">>, FALSE>>,
    <<"lnE", <<"U+2268">>, FALSE>>, <<"lnap", <<"U+2A89">>, FALSE>>,
    <<"lnapprox", <<"U+2A89">>, FALSE>>, <<"lne", <<"U+2A87">>, FALSE>>,
    <<"lneq", <<"U+2A87">>, FALSE>>, <<"lneqq", <<"U+2268">>, FALSE>>,
    <<"lnsim", <<"U+22E6">>, FALSE>>, <<"loang", <<"U+27EC">>, FALSE>>,
    <<"loarr", <<"U+21FD">>, FALSE>>, <<"lobrk", <<"U+27E6">>, FALSE>>,
    <<"longleftarrow", <<"U+27F5">>, FALSE>>,
    <<"longleftrightarrow", <<"U+27F7">>, FALSE>>,
    <<"longmapsto", <<"U+27FC">>, FALSE>>,
    <<"longrightarrow", <<"U+27F6">>, FALSE>>,
    <<"looparrowleft", <<"U+21AB">>, FALSE>>,
    <<"looparrowright", <<"U+21AC">>, FALSE>>,
    <<"lopar", <<"U+2985">>, FALSE>>, <<"lopf", <<"U+1D55D">>, FALSE>>,
    <<"loplus", <<"U+2A2D">>, FALSE>>, <<"lotimes", <<"U+2A34">>, FALSE>>,
    <<"lowast", <<"U+2217">>, FALSE>>, <<"lowbar", <<"_">>, FALSE>>,
    <<"loz", <<"U+25CA">>, FALSE>>, <<"lozenge", <<"U+25CA">>, FALSE>>,
    <<"lozf", <<"U+29EB">>, FALSE>>, <<"lpar", <<"(">>, FALSE>>,
    <<"lparlt", <<"U+2993">>, FALSE>>, <<"lrarr", <<"U+21C6">>, FALSE>>,
    <<"lrcorner", <<"U+231F">>, FALSE>>, <<"lrhar", <<"U+21CB">>, FALSE>>,
    <<"lrhard", <<"U+296D">>, FALSE>>, <<"lrm", <<"U+200E">>, FALSE>>,
    <<"lrtri", <<"U+22BF">>, FALSE>>, <<"lsaquo", <<"U+2039">>, FALSE>>,
    <<"lscr", <<"U+1D4C1">>, FALSE>>, <<"lsh", <<"U+21B0">>, FALSE>>,
    <<"lsim", <<"U+2272">>, FALSE>>, <<"lsime", <<"U+2A8D">>, FALSE>>,
    <<"lsimg", <<"U+2A8F">>, FALSE>>, <<"lsqb", <<"[">>, FALSE>>,
    <<"lsquo", <<"U+2018">>, FALSE>>, <<"lsquor", <<"U+201A">>, FALSE>>,
    <<"lstrok", <<"U+0142">>, FALSE>>, <<"lt", <<"<">>, TRUE>>,
    <<"ltcc", <<"U+2AA6">>, FALSE>>, <<"ltcir", <<"U+2A79">>, FALSE>>,
    <<"ltdot", <<"U+22D6">>, FALSE>>, <<"lthree", <<"U+22CB">>, FALSE>>,
    <<"ltimes", <<"U+22C9">>, FALSE>>, <<"ltlarr", <<"U+2976">>, FALSE>>,
    <<"ltquest", <<"U+2A7B">>, FALSE>>, <<"ltrPar", <<"U+2996">>, FALSE>>,
    <<"ltri", <<"U+25C3">>, FALSE>>, <<"ltrie", <<"U+22B4">>, FALSE>>,
    <<"ltrif", <<"U+25C2">>, FALSE>>, <<"lurdshar", <<"U+294A">>, FALSE>>,
    <<"luruhar", <<"U+2966">>, FALSE>>,
    <<"lvertneqq", <<"U+2268", "U+FE00">>, FALSE>>,
    <<"lvnE", <<"U+2268", "U+FE00">>, FALSE>>,
    <<"mDDot", <<"U+223A">>, FALSE>>, <<"macr", <<"U+00AF">>, TRUE>>,
    <<"male", <<"U+2642">>, FALSE>>, <<"malt", <<"U+2720">>, FALSE>>,
    <<"maltese", <<"U+2720">>, FALSE>>, <<"map", <<"U+21A6">>, FALSE>>,
    <<"mapsto", <<"U+21A6">>, FALSE>>, <<"mapstodown", <<"U+21A7">>, FALSE>>,
    <<"mapstoleft", <<"U+21A4">>, FALSE>>,
    <<"mapstoup", <<"U+21A5">>, FALSE>>, <<"marker", <<"U+25AE">>, FALSE>>,
    <<"mcomma", <<"U+2A29">>, FALSE>>, <<"mcy", <<"U+043C">>, FALSE>>,
    <<"mdash", <<"U+2014">>, FALSE>>,
    <<"measuredangle", <<"U+2221">>, FALSE>>,
    <<"mfr", <<"U+1D52A">>, FALSE>>, <<"mho", <<"U+2127">>, FALSE>>,
    <<"micro", <<"U+00B5">>, TRUE>>, <<"mid", <<"U+2223">>, FALSE>>,
    <<"midast", <<"*">>, FALSE>>, <<"midcir", <<"U+2AF0">>, FALSE>>,
    <<"middot", <<"U+00B7">>, TRUE>>, <<"minus", <<"U+2212">>, FALSE>>,
    <<"minusb", <<"U+229F">>, FALSE>>, <<"minusd", <<"U+2238">>, FALSE>>,
    <<"minusdu", <<"U+2A2A">>, FALSE>>, <<"mlcp", <<"U+2ADB">>, FALSE>>,
    <<"mldr", <<"U+2026">>, FALSE>>, <<"mnplus", <<"U+2213">>, FALSE>>,
    <<"models", <<"U+22A7">>, FALSE>>, <<"mopf", <<"U+1D55E">>, FALSE>>,
    <<"mp", <<"U+2213">>, FALSE>>, <<"mscr", <<"U+1D4C2">>, FALSE>>,
    <<"mstpos", <<"U+223E">>, FALSE>>, <<"mu", <<"U+03BC">>, FALSE>>,
    <<"multimap", <<"U+22B8">>, FALSE>>, <<"mumap", <<"U+22B8">>, FALSE>>,
    <<"nGg", <<"U+22D9", "U+0338">>, FALSE>>,
    <<"nGt", <<"U+226B", "U+20D2">>, FALSE>>,
    <<"nGtv", <<"U+226B", "U+0338">>, FALSE>>,
    <<"nLeftarrow", <<"U+21CD">>, FALSE>>,
    <<"nLeftrightarrow", <<"U+21CE">>, FALSE>>,
    <<"nLl", <<"U+22D8", "U+0338">>, FALSE>>,
    <<"nLt", <<"U+226A", "U+20D2">>, FALSE>>,
    <<"nLtv", <<"U+226A", "U+0338">>, FALSE>>,
    <<"nRightarrow", <<"U+21CF">>, FALSE>>,
    <<"nVDash", <<"U+22AF">>, FALSE>>, <<"nVdash", <<"U+22AE">>, FALSE>>,
    <<"nabla", <<"U+2207">>, FALSE>>, <<"nacute", <<"U+0144">>, FALSE>>,
    <<"nang", <<"U+2220", "U+20D2">>, FALSE>>,
    <<"nap", <<"U+2249">>, FALSE>>,
    <<"napE", <<"U+2A70", "U+0338">>, FALSE>>,
    <<"napid", <<"U+224B", "U+0338">>, FALSE>>,
    <<"napos", <<"U+0149">>, FALSE>>, <<"napprox", <<"U+2249">>, FALSE>>,
    <<"natur", <<"U+266E">>, FALSE>>, <<"natural", <<"U+266E">>, FALSE>>,
    <<"naturals", <<"U+2115">>, FALSE>>, <<"nbsp", <<"U+00A0">>, TRUE>>,
    <<"nbump", <<"U+224E", "U+0338">>, FALSE>>,
    <<"nbumpe", <<"U+224F", "U+0338">>, FALSE>>,
    <<"ncap", <<"U+2A43">>, FALSE>>, <<"ncaron", <<"U+0148">>, FALSE>>,
    <<"ncedil", <<"U+0146">>, FALSE>>, <<"ncong", <<"U+2247">>, FALSE>>,
    <<"ncongdot", <<"U+2A6D", "U+0338">>, FALSE>>,
    <<"ncup", <<"U+2A42">>, FALSE>>, <<"ncy", <<"U+043D">>, FALSE>>,
    <<"ndash", <<"U+2013">>, FALSE>>, <<"ne", <<"U+2260">>, FALSE>>,
    <<"neArr", <<"U+21D7">>, FALSE>>, <<"nearhk", <<"U+2924">>, FALSE>>,
    <<"nearr", <<"U+2197">>, FALSE>>, <<"nearrow", <<"U+2197">>, FALSE>>,
    <<"nedot", <<"U+2250", "U+0338">>, FALSE>>,
    <<"nequiv", <<"U+2262">>, FALSE>>, <<"nesear", <<"U+2928">>, FALSE>>,
    <<"nesim", <<"U+2242", "U+0338">>, FALSE>>,
    <<"nexist", <<"U+2204">>, FALSE>>, <<"nexists", <<"U+2204">>, FALSE>>,
    <<"nfr", <<"U+1D52B">>, FALSE>>,
    <<"ngE", <<"U+2267", "U+0338">>, FALSE>>, <<"nge", <<"U+2271">>, FALSE>>,
    <<"ngeq", <<"U+2271">>, FALSE>>,
    <<"ngeqq", <<"U+2267", "U+0338">>, FALSE>>,
    <<"ngeqslant", <<"U+2A7E", "U+0338">>, FALSE>>,
    <<"nges", <<"U+2A7E", "U+0338">>, FALSE>>,
    <<"ngsim", <<"U+2275">>, FALSE>>, <<"ngt", <<"U+226F">>, FALSE>>,
    <<"ngtr", <<"U+226F">>, FALSE>>, <<"nhArr", <<"U+21CE">>, FALSE>>,
    <<"nharr", <<"U+21AE">>, FALSE>>, <<"nhpar", <<"U+2AF2">>, FALSE>>,
    <<"ni", <<"U+220B">>, FALSE>>, <<"nis", <<"U+22FC">>, FALSE>>,
    <<"nisd", <<"U+22FA">>, FALSE>>, <<"niv", <<"U+220B">>, FALSE>>,
    <<"njcy", <<"U+045A">>, FALSE>>, <<"nlArr", <<"U+21CD">>, FALSE>>,
    <<"nlE", <<"U+2266", "U+0338">>, FALSE>>,
    <<"nlarr", <<"U+219A">>, FALSE>>, <<"nldr", <<"U+2025">>, FALSE>>,
    <<"nle", <<"U+2270">>, FALSE>>, <<"nleftarrow", <<"U+219A">>, FALSE>>,
    <<"nleftrightarrow", <<"U+21AE">>, FALSE>>,
    <<"nleq", <<"U+2270">>, FALSE>>,
    <<"nleqq", <<"U+2266", "U+0338">>, FALSE>>,
    <<"nleqslant", <<"U+2A7D", "U+0338">>, FALSE>>,
    <<"nles", <<"U+2A7D", "U+0338">>, FALSE>>,
    <<"nless", <<"U+226E">>, FALSE>>, <<"nlsim", <<"U+2274">>, FALSE>>,
    <<"nlt", <<"U+226E">>, FALSE>>, <<"nltri", <<"U+22EA">>, FALSE>>,
    <<"nltrie", <<"U+22EC">>, FALSE>>, <<"nmid", <<"U+2224">>, FALSE>>,
    <<"nopf", <<"U+1D55F">>, FALSE>>, <<"not", <<"U+00AC">>, TRUE>>,
    <<"notin", <<"U+2209">>, FALSE>>,
    <<"notinE", <<"U+22F9", "U+0338">>, FALSE>>,
    <<"notindot", <<"U+22F5", "U+0338">>, FALSE>>,
    <<"notinva", <<"U+2209">>, FALSE>>, <<"notinvb", <<"U+22F7">>, FALSE>>,
    <<"notinvc", <<"U+22F6">>, FALSE>>, <<"notni", <<"U+220C">>, FALSE>>,
    <<"notniva", <<"U+220C">>, FALSE>>, <<"notnivb", <<"U+22FE">>, FALSE>>,
    <<"notnivc", <<"U+22FD">>, FALSE>>, <<"npar", <<"U+2226">>, FALSE>>,
    <<"nparallel", <<"U+2226">>, FALSE>>,
    <<"nparsl", <<"U+2AFD", "U+20E5">>, FALSE>>,
    <<"npart", <<"U+2202", "U+0338">>, FALSE>>,
    <<"npolint", <<"U+2A14">>, FALSE>>, <<"npr", <<"U+2280">>, FALSE>>,
    <<"nprcue", <<"U+22E0">>, FALSE>>,
    <<"npre", <<"U+2AAF", "U+0338">>, FALSE>>,
    <<"nprec", <<"U+2280">>, FALSE>>,
    <<"npreceq", <<"U+2AAF", "U+0338">>, FALSE>>,
    <<"nrArr", <<"U+21CF">>, FALSE>>, <<"nrarr", <<"U+219B">>, FALSE>>,
    <<"nrarrc", <<"U+2933", "U+0338">>, FALSE>>,
    <<"nrarrw", <<"U+219D", "U+0338">>, FALSE>>,
    <<"nrightarrow", <<"U+219B">>, FALSE>>, <<"nrtri", <<"U+22EB">>, FALSE>>,
    <<"nrtrie", <<"U+22ED">>, FALSE>>, <<"nsc", <<"U+2281">>, FALSE>>,
    <<"nsccue", <<"U+22E1">>, FALSE>>,
    <<"nsce", <<"U+2AB0", "U+0338">>, FALSE>>,
    <<"nscr", <<"U+1D4C3">>, FALSE>>, <<"nshortmid", <<"U+2224">>, FALSE>>,
    <<"nshortparallel", <<"U+2226">>, FALSE>>,
    <<"nsim", <<"U+2241">>, FALSE>>, <<"nsime", <<"U+2244">>, FALSE>>,
    <<"nsimeq", <<"U+2244">>, FALSE>>, <<"nsmid", <<"U+2224">>, FALSE>>,
    <<"nspar", <<"U+2226">>, FALSE>>, <<"nsqsube", <<"U+22E2">>, FALSE>>,
    <<"nsqsupe", <<"U+22E3">>, FALSE>>, <<"nsub", <<"U+2284">>, FALSE>>,
    <<"nsubE", <<"U+2AC5", "U+0338">>, FALSE>>,
    <<"nsube", <<"U+2288">>, FALSE>>,
    <<"nsubset", <<"U+2282", "U+20D2">>, FALSE>>,
    <<"nsubseteq", <<"U+2288">>, FALSE>>,
    <<"nsubseteqq", <<"U+2AC5", "U+0338">>, FALSE>>,
    <<"nsucc", <<"U+2281">>, FALSE>>,
    <<"nsucceq", <<"U+2AB0", "U+0338">>, FALSE>>,
    <<"nsup", <<"U+2285">>, FALSE>>,
    <<"nsupE", <<"U+2AC6", "U+0338">>, FALSE>>,
    <<"nsupe", <<"U+2289">>, FALSE>>,
    <<"nsupset", <<"U+2283", "U+20D2">>, FALSE>>,
    <<"nsupseteq", <<"U+2289">>, FALSE>>,
    <<"nsupseteqq", <<"U+2AC6", "U+0338">>, FALSE>>,
    <<"ntgl", <<"U+2279">>, FALSE>>, <<"ntilde", <<"U+00F1">>, TRUE>>,
    <<"ntlg", <<"U+2278">>, FALSE>>,
    <<"ntriangleleft", <<"U+22EA">>, FALSE>>,
    <<"ntrianglelefteq", <<"U+22EC">>, FALSE>>,
    <<"ntriangleright", <<"U+22EB">>, FALSE>>,
    <<"ntrianglerighteq", <<"U+22ED">>, FALSE>>,
    <<"nu", <<"U+03BD">>, FALSE>>, <<"num", <<"#">>, FALSE>>,
    <<"numero", <<"U+2116">>, FALSE>>, <<"numsp", <<"U+2007">>, FALSE>>,
    <<"nvDash", <<"U+22AD">>, FALSE>>, <<"nvHarr", <<"U+2904">>, FALSE>>,
    <<"nvap", <<"U+224D", "U+20D2">>, FALSE>>,
    <<"nvdash", <<"U+22AC">>, FALSE>>,
    <<"nvge", <<"U+2265", "U+20D2">>, FALSE>>,
    <<"nvgt", <<">", "U+20D2">>, FALSE>>, <<"nvinfin", <<"U+29DE">>, FALSE>>,
    <<"nvlArr", <<"U+2902">>, FALSE>>,
    <<"nvle", <<"U+2264", "U+20D2">>, FALSE>>,
    <<"nvlt", <<"<", "U+20D2">>, FALSE>>,
    <<"nvltrie", <<"U+22B4", "U+20D2">>, FALSE>>,
    <<"nvrArr", <<"U+2903">>, FALSE>>,
    <<"nvrtrie", <<"U+22B5", "U+20D2">>, FALSE>>,
    <<"nvsim", <<"U+223C", "U+20D2">>, FALSE>>,
    <<"nwArr", <<"U+21D6">>, FALSE>>, <<"nwarhk", <<"U+2923">>, FALSE>>,
    <<"nwarr", <<"U+2196">>, FALSE>>, <<"nwarrow", <<"U+2196">>, FALSE>>,
    <<"nwnear", <<"U+2927">>, FALSE>>, <<"oS", <<"U+24C8">>, FALSE>>,
    <<"oacute", <<"U+00F3">>, TRUE>>, <<"oast", <<"U+229B">>, FALSE>>,
    <<"ocir", <<"U+229A">>, FALSE>>, <<"ocirc", <<"U+00F4">>, TRUE>>,
    <<"ocy", <<"U+043E">>, FALSE>>, <<"odash", <<"U+229D">>, FALSE>>,
    <<"odblac", <<"U+0151">>, FALSE>>, <<"odiv", <<"U+2A38">>, FALSE>>,
    <<"odot", <<"U+2299">>, FALSE>>, <<"odsold", <<"U+29BC">>, FALSE>>,
    <<"oelig", <<"U+0153">>, FALSE>>, <<"ofcir", <<"U+29BF">>, FALSE>>,
    <<"ofr", <<"U+1D52C">>, FALSE>>, <<"ogon", <<"U+02DB">>, FALSE>>,
    <<"ograve", <<"U+00F2">>, TRUE>>, <<"ogt", <<"U+29C1">>, FALSE>>,
    <<"ohbar", <<"U+29B5">>, FALSE>>, <<"ohm", <<"U+03A9">>, FALSE>>,
    <<"oint", <<"U+222E">>, FALSE>>, <<"olarr", <<"U+21BA">>, FALSE>>,
    <<"olcir", <<"U+29BE">>, FALSE>>, <<"olcross", <<"U+29BB">>, FALSE>>,
    <<"oline", <<"U+203E">>, FALSE>>, <<"olt", <<"U+29C0">>, FALSE>>,
    <<"omacr", <<"U+014D">>, FALSE>>, <<"omega", <<"U+03C9">>, FALSE>>,
    <<"omicron", <<"U+03BF">>, FALSE>>, <<"omid", <<"U+29B6">>, FALSE>>,
    <<"ominus", <<"U+2296">>, FALSE>>, <<"oopf", <<"U+1D560">>, FALSE>>,
    <<"opar", <<"U+29B7">>, FALSE>>, <<"operp", <<"U+29B9">>, FALSE>>,
    <<"oplus", <<"U+2295">>, FALSE>>, <<"or", <<"U+2228">>, FALSE>>,
    <<"orarr", <<"U+21BB">>, FALSE>>, <<"ord", <<"U+2A5D">>, FALSE>>,
    <<"order", <<"U+2134">>, FALSE>>, <<"orderof", <<"U+2134">>, FALSE>>,
    <<"ordf", <<"U+00AA">>, TRUE>>, <<"ordm", <<"U+00BA">>, TRUE>>,
    <<"origof", <<"U+22B6">>, FALSE>>, <<"oror", <<"U+2A56">>, FALSE>>,
    <<"orslope", <<"U+2A57">>, FALSE>>, <<"orv", <<"U+2A5B">>, FALSE>>,
    <<"oscr", <<"U+2134">>, FALSE>>, <<"oslash", <<"U+00F8">>, TRUE>>,
    <<"osol", <<"U+2298">>, FALSE>>, <<"otilde", <<"U+00F5">>, TRUE>>,
    <<"otimes", <<"U+2297">>, FALSE>>, <<"otimesas", <<"U+2A36">>, FALSE>>,
    <<"ouml", <<"U+00F6">>, TRUE>>, <<"ovbar", <<"U+233D">>, FALSE>>,
    <<"par", <<"U+2225">>, FALSE>>, <<"para", <<"U+00B6">>, TRUE>>,
    <<"parallel", <<"U+2225">>, FALSE>>, <<"parsim", <<"U+2AF3">>, FALSE>>,
    <<"parsl", <<"U+2AFD">>, FALSE>>, <<"part", <<"U+2202">>, FALSE>>,
    <<"pcy", <<"U+043F">>, FALSE>>, <<"percnt", <<"%">>, FALSE>>,
    <<"period", <<".">>, FALSE>>, <<"permil", <<"U+2030">>, FALSE>>,
    <<"perp", <<"U+22A5">>, FALSE>>, <<"pertenk", <<"U+2031">>, FALSE>>,
    <<"pfr", <<"U+1D52D">>, FALSE>>, <<"phi", <<"U+03C6">>, FALSE>>,
    <<"phiv", <<"U+03D5">>, FALSE>>, <<"phmmat", <<"U+2133">>, FALSE>>,
    <<"phone", <<"U+260E">>, FALSE>>, <<"pi", <<"U+03C0">>, FALSE>>,
    <<"pitchfork", <<"U+22D4">>, FALSE>>, <<"piv", <<"U+03D6">>, FALSE>>,
    <<"planck", <<"U+210F">>, FALSE>>, <<"planckh", <<"U+210E">>, FALSE>>,
    <<"plankv", <<"U+210F">>, FALSE>>, <<"plus", <<"+">>, FALSE>>,
    <<"plusacir", <<"U+2A23">>, FALSE>>, <<"plusb", <<"U+229E">>, FALSE>>,
    <<"pluscir", <<"U+2A22">>, FALSE>>, <<"plusdo", <<"U+2214">>, FALSE>>,
    <<"plusdu", <<"U+2A25">>, FALSE>>, <<"pluse", <<"U+2A72">>, FALSE>>,
    <<"plusmn", <<"U+00B1">>, TRUE>>, <<"plussim", <<"U+2A26">>, FALSE>>,
    <<"plustwo", <<"U+2A27">>, FALSE>>, <<"pm", <<"U+00B1">>, FALSE>>,
    <<"pointint", <<"U+2A15">>, FALSE>>, <<"popf", <<"U+1D561">>, FALSE>>,
    <<"pound", <<"U+00A3">>, TRUE>>, <<"pr", <<"U+227A">>, FALSE>>,
    <<"prE", <<"U+2AB3">>, FALSE>>, <<"prap", <<"U+2AB7">>, FALSE>>,
    <<"prcue", <<"U+227C">>, FALSE>>, <<"pre", <<"U+2AAF">>, FALSE>>,
    <<"prec", <<"U+227A">>, FALSE>>, <<"precapprox", <<"U+2AB7">>, FALSE>>,
    <<"preccurlyeq", <<"U+227C">>, FALSE>>,
    <<"preceq", <<"U+2AAF">>, FALSE>>,
    <<"precnapprox", <<"U+2AB9">>, FALSE>>,
    <<"precneqq", <<"U+2AB5">>, FALSE>>, <<"precnsim", <<"U+22E8">>, FALSE>>,
    <<"precsim", <<"U+227E">>, FALSE>>, <<"prime", <<"U+2032">>, FALSE>>,
    <<"primes", <<"U+2119">>, FALSE>>, <<"prnE", <<"U+2AB5">>, FALSE>>,
    <<"prnap", <<"U+2AB9">>, FALSE>>, <<"prnsim", <<"U+22E8">>, FALSE>>,
    <<"prod", <<"U+220F">>, FALSE>>, <<"profalar", <<"U+232E">>, FALSE>>,
    <<"profline", <<"U+2312">>, FALSE>>, <<"profsurf", <<"U+2313">>, FALSE>>,
    <<"prop", <<"U+221D">>, FALSE>>, <<"propto", <<"U+221D">>, FALSE>>,
    <<"prsim", <<"U+227E">>, FALSE>>, <<"prurel", <<"U+22B0">>, FALSE>>,
    <<"pscr", <<"U+1D4C5">>, FALSE>>, <<"psi", <<"U+03C8">>, FALSE>>,
    <<"puncsp", <<"U+2008">>, FALSE>>, <<"qfr", <<"U+1D52E">>, FALSE>>,
    <<"qint", <<"U+2A0C">>, FALSE>>, <<"qopf", <<"U+1D562">>, FALSE>>,
    <<"qprime", <<"U+2057">>, FALSE>>, <<"qscr", <<"U+1D4C6">>, FALSE>>,
    <<"quaternions", <<"U+210D">>, FALSE>>,
    <<"quatint", <<"U+2A16">>, FALSE>>, <<"quest", <<"?">>, FALSE>>,
    <<"questeq", <<"U+225F">>, FALSE>>, <<"quot", <<"\"">>, TRUE>>,
    <<"rAarr", <<"U+21DB">>, FALSE>>, <<"rArr", <<"U+21D2">>, FALSE>>,
    <<"rAtail", <<"U+291C">>, FALSE>>, <<"rBarr", <<"U+290F">>, FALSE>>,
    <<"rHar", <<"U+2964">>, FALSE>>,
    <<"race", <<"U+223D", "U+0331">>, FALSE>>,
    <<"racute", <<"U+0155">>, FALSE>>, <<"radic", <<"U+221A">>, FALSE>>,
    <<"raemptyv", <<"U+29B3">>, FALSE>>, <<"rang", <<"U+27E9">>, FALSE>>,
    <<"rangd", <<"U+2992">>, FALSE>>, <<"range", <<"U+29A5">>, FALSE>>,
    <<"rangle", <<"U+27E9">>, FALSE>>, <<"raquo", <<"U+00BB">>, TRUE>>,
    <<"rarr", <<"U+2192">>, FALSE>>, <<"rarrap", <<"U+2975">>, FALSE>>,
    <<"rarrb", <<"U+21E5">>, FALSE>>, <<"rarrbfs", <<"U+2920">>, FALSE>>,
    <<"rarrc", <<"U+2933">>, FALSE>>, <<"rarrfs", <<"U+291E">>, FALSE>>,
    <<"rarrhk", <<"U+21AA">>, FALSE>>, <<"rarrlp", <<"U+21AC">>, FALSE>>,
    <<"rarrpl", <<"U+2945">>, FALSE>>, <<"rarrsim", <<"U+2974">>, FALSE>>,
    <<"rarrtl", <<"U+21A3">>, FALSE>>, <<"rarrw", <<"U+219D">>, FALSE>>,
    <<"ratail", <<"U+291A">>, FALSE>>, <<"ratio", <<"U+2236">>, FALSE>>,
    <<"rationals", <<"U+211A">>, FALSE>>, <<"rbarr", <<"U+290D">>, FALSE>>,
    <<"rbbrk", <<"U+2773">>, FALSE>>, <<"rbrace", <<"}">>, FALSE>>,
    <<"rbrack", <<"]">>, FALSE>>, <<"rbrke", <<"U+298C">>, FALSE>>,
    <<"rbrksld", <<"U+298E">>, FALSE>>, <<"rbrkslu", <<"U+2990">>, FALSE>>,
    <<"rcaron", <<"U+0159">>, FALSE>>, <<"rcedil", <<"U+0157">>, FALSE>>,
    <<"rceil", <<"U+2309">>, FALSE>>, <<"rcub", <<"}">>, FALSE>>,
    <<"rcy", <<"U+0440">>, FALSE>>, <<"rdca", <<"U+2937">>, FALSE>>,
    <<"rdldhar", <<"U+2969">>, FALSE>>, <<"rdquo", <<"U+201D">>, FALSE>>,
    <<"rdquor", <<"U+201D">>, FALSE>>, <<"rdsh", <<"U+21B3">>, FALSE>>,
    <<"real", <<"U+211C">>, FALSE>>, <<"realine", <<"U+211B">>, FALSE>>,
    <<"realpart", <<"U+211C">>, FALSE>>, <<"reals", <<"U+211D">>, FALSE>>,
    <<"rect", <<"U+25AD">>, FALSE>>, <<"reg", <<"U+00AE">>, TRUE>>,
    <<"rfisht", <<"U+297D">>, FALSE>>, <<"rfloor", <<"U+230B">>, FALSE>>,
    <<"rfr", <<"U+1D52F">>, FALSE>>, <<"rhard", <<"U+21C1">>, FALSE>>,
    <<"rharu", <<"U+21C0">>, FALSE>>, <<"rharul", <<"U+296C">>, FALSE>>,
    <<"rho", <<"U+03C1">>, FALSE>>, <<"rhov", <<"U+03F1">>, FALSE>>,
    <<"rightarrow", <<"U+2192">>, FALSE>>,
    <<"rightarrowtail", <<"U+21A3">>, FALSE>>,
    <<"rightharpoondown", <<"U+21C1">>, FALSE>>,
    <<"rightharpoonup", <<"U+21C0">>, FALSE>>,
    <<"rightleftarrows", <<"U+21C4">>, FALSE>>,
    <<"rightleftharpoons", <<"U+21CC">>, FALSE>>,
    <<"rightrightarrows", <<"U+21C9">>, FALSE>>,
    <<"rightsquigarrow", <<"U+219D">>, FALSE>>,
    <<"rightthreetimes", <<"U+22CC">>, FALSE>>,
    <<"ring", <<"U+02DA">>, FALSE>>, <<"risingdotseq", <<"U+2253">>, FALSE>>,
    <<"rlarr", <<"U+21C4">>, FALSE>>, <<"rlhar", <<"U+21CC">>, FALSE>>,
    <<"rlm", <<"U+200F">>, FALSE>>, <<"rmoust", <<"U+23B1">>, FALSE>>,
    <<"rmoustache", <<"U+23B1">>, FALSE>>, <<"rnmid", <<"U+2AEE">>, FALSE>>,
    <<"roang", <<"U+27ED">>, FALSE>>, <<"roarr", <<"U+21FE">>, FALSE>>,
    <<"robrk", <<"U+27E7">>, FALSE>>, <<"ropar", <<"U+2986">>, FALSE>>,
    <<"ropf", <<"U+1D563">>, FALSE>>, <<"roplus", <<"U+2A2E">>, FALSE>>,
    <<"rotimes", <<"U+2A35">>, FALSE>>, <<"rpar", <<")">>, FALSE>>,
    <<"rpargt", <<"U+2994">>, FALSE>>, <<"rppolint", <<"U+2A12">>, FALSE>>,
    <<"rrarr", <<"U+21C9">>, FALSE>>, <<"rsaquo", <<"U+203A">>, FALSE>>,
    <<"rscr", <<"U+1D4C7">>, FALSE>>, <<"rsh", <<"U+21B1">>, FALSE>>,
    <<"rsqb", <<"]">>, FALSE>>, <<"rsquo", <<"U+2019">>, FALSE>>,
    <<"rsquor", <<"U+2019">>, FALSE>>, <<"rthree", <<"U+22CC">>, FALSE>>,
    <<"rtimes", <<"U+22CA">>, FALSE>>, <<"rtri", <<"U+25B9">>, FALSE>>,
    <<"rtrie", <<"U+22B5">>, FALSE>>, <<"rtrif", <<"U+25B8">>, FALSE>>,
    <<"rtriltri", <<"U+29CE">>, FALSE>>, <<"ruluhar", <<"U+2968">>, FALSE>>,
    <<"rx", <<"U+211E">>, FALSE>>, <<"sacute", <<"U+015B">>, FALSE>>,
    <<"sbquo", <<"U+201A">>, FALSE>>, <<"sc", <<"U+227B">>, FALSE>>,
    <<"scE", <<"U+2AB4">>, FALSE>>, <<"scap", <<"U+2AB8">>, FALSE>>,
    <<"scaron", <<"U+0161">>, FALSE>>, <<"sccue", <<"U+227D">>, FALSE>>,
    <<"sce", <<"U+2AB0">>, FALSE>>, <<"scedil", <<"U+015F">>, FALSE>>,
    <<"scirc", <<"U+015D">>, FALSE>>, <<"scnE", <<"U+2AB6">>, FALSE>>,
    <<"scnap", <<"U+2ABA">>, FALSE>>, <<"scnsim", <<"U+22E9">>, FALSE>>,
    <<"scpolint", <<"U+2A13">>, FALSE>>, <<"scsim", <<"U+227F">>, FALSE>>,
    <<"scy", <<"U+0441">>, FALSE>>, <<"sdot", <<"U+22C5">>, FALSE>>,
    <<"sdotb", <<"U+22A1">>, FALSE>>, <<"sdote", <<"U+2A66">>, FALSE>>,
    <<"seArr", <<"U+21D8">>, FALSE>>, <<"searhk", <<"U+2925">>, FALSE>>,
    <<"searr", <<"U+2198">>, FALSE>>, <<"searrow", <<"U+2198">>, FALSE>>,
    <<"sect", <<"U+00A7">>, TRUE>>, <<"semi", <<";">>, FALSE>>,
    <<"seswar", <<"U+2929">>, FALSE>>, <<"setminus", <<"U+2216">>, FALSE>>,
    <<"setmn", <<"U+2216">>, FALSE>>, <<"sext", <<"U+2736">>, FALSE>>,
    <<"sfr", <<"U+1D530">>, FALSE>>, <<"sfrown", <<"U+2322">>, FALSE>>,
    <<"sharp", <<"U+266F">>, FALSE>>, <<"shchcy", <<"U+0449">>, FALSE>>,
    <<"shcy", <<"U+0448">>, FALSE>>, <<"shortmid", <<"U+2223">>, FALSE>>,
    <<"shortparallel", <<"U+2225">>, FALSE>>, <<"shy", <<"U+00AD">>, TRUE>>,
    <<"sigma", <<"U+03C3">>, FALSE>>, <<"sigmaf", <<"U+03C2">>, FALSE>>,
    <<"sigmav", <<"U+03C2">>, FALSE>>, <<"sim", <<"U+223C">>, FALSE>>,
    <<"simdot", <<"U+2A6A">>, FALSE>>, <<"sime", <<"U+2243">>, FALSE>>,
    <<"simeq", <<"U+2243">>, FALSE>>, <<"simg", <<"U+2A9E">>, FALSE>>,
    <<"simgE", <<"U+2AA0">>, FALSE>>, <<"siml", <<"U+2A9D">>, FALSE>>,
    <<"simlE", <<"U+2A9F">>, FALSE>>, <<"simne", <<"U+2246">>, FALSE>>,
    <<"simplus", <<"U+2A24">>, FALSE>>, <<"simrarr", <<"U+2972">>, FALSE>>,
    <<"slarr", <<"U+2190">>, FALSE>>,
    <<"smallsetminus", <<"U+2216">>, FALSE>>,
    <<"smashp", <<"U+2A33">>, FALSE>>, <<"smeparsl", <<"U+29E4">>, FALSE>>,
    <<"smid", <<"U+2223">>, FALSE>>, <<"smile", <<"U+2323">>, FALSE>>,
    <<"smt", <<"U+2AAA">>, FALSE>>, <<"smte", <<"U+2AAC">>, FALSE>>,
    <<"smtes", <<"U+2AAC", "U+FE00">>, FALSE>>,
    <<"softcy", <<"U+044C">>, FALSE>>, <<"sol", <<"/">>, FALSE>>,
    <<"solb", <<"U+29C4">>, FALSE>>, <<"solbar", <<"U+233F">>, FALSE>>,
    <<"sopf", <<"U+1D564">>, FALSE>>, <<"spades", <<"U+2660">>, FALSE>>,
    <<"spadesuit", <<"U+2660">>, FALSE>>, <<"spar", <<"U+2225">>, FALSE>>,
    <<"sqcap", <<"U+2293">>, FALSE>>,
    <<"sqcaps", <<"U+2293", "U+FE00">>, FALSE>>,
    <<"sqcup", <<"U+2294">>, FALSE>>,
    <<"sqcups", <<"U+2294", "U+FE00">>, FALSE>>,
    <<"sqsub", <<"U+228F">>, FALSE>>, <<"sqsube", <<"U+2291">>, FALSE>>,
    <<"sqsubset", <<"U+228F">>, FALSE>>,
    <<"sqsubseteq", <<"U+2291">>, FALSE>>, <<"sqsup", <<"U+2290">>, FALSE>>,
    <<"sqsupe", <<"U+2292">>, FALSE>>, <<"sqsupset", <<"U+2290">>, FALSE>>,
    <<"sqsupseteq", <<"U+2292">>, FALSE>>, <<"squ", <<"U+25A1">>, FALSE>>,
    <<"square", <<"U+25A1">>, FALSE>>, <<"squarf", <<"U+25AA">>, FALSE>>,
    <<"squf", <<"U+25AA">>, FALSE>>, <<"srarr", <<"U+2192">>, FALSE>>,
    <<"sscr", <<"U+1D4C8">>, FALSE>>, <<"ssetmn", <<"U+2216">>, FALSE>>,
    <<"ssmile", <<"U+2323">>, FALSE>>, <<"sstarf", <<"U+22C6">>, FALSE>>,
    <<"star", <<"U+2606">>, FALSE>>, <<"starf", <<"U+2605">>, FALSE>>,
    <<"straightepsilon", <<"U+03F5">>, FALSE>>,
    <<"straightphi", <<"U+03D5">>, FALSE>>, <<"strns", <<"U+00AF">>, FALSE>>,
    <<"sub", <<"U+2282">>, FALSE>>, <<"subE", <<"U+2AC5">>, FALSE>>,
    <<"subdot", <<"U+2ABD">>, FALSE>>, <<"sube", <<"U+2286">>, FALSE>>,
    <<"subedot", <<"U+2AC3">>, FALSE>>, <<"submult", <<"U+2AC1">>, FALSE>>,
    <<"subnE", <<"U+2ACB">>, FALSE>>, <<"subne", <<"U+228A">>, FALSE>>,
    <<"subplus", <<"U+2ABF">>, FALSE>>, <<"subrarr", <<"U+2979">>, FALSE>>,
    <<"subset", <<"U+2282">>, FALSE>>, <<"subseteq", <<"U+2286">>, FALSE>>,
    <<"subseteqq", <<"U+2AC5">>, FALSE>>,
    <<"subsetneq", <<"U+228A">>, FALSE>>,
    <<"subsetneqq", <<"U+2ACB">>, FALSE>>, <<"subsim", <<"U+2AC7">>, FALSE>>,
    <<"subsub", <<"U+2AD5">>, FALSE>>, <<"subsup", <<"U+2AD3">>, FALSE>>,
    <<"succ", <<"U+227B">>, FALSE>>, <<"succapprox", <<"U+2AB8">>, FALSE>>,
    <<"succcurlyeq", <<"U+227D">>, FALSE>>,
    <<"succeq", <<"U+2AB0">>, FALSE>>,
    <<"succnapprox", <<"U+2ABA">>, FALSE>>,
    <<"succneqq", <<"U+2AB6">>, FALSE>>, <<"succnsim", <<"U+22E9">>, FALSE>>,
    <<"succsim", <<"U+227F">>, FALSE>>, <<"sum", <<"U+2211">>, FALSE>>,
    <<"sung", <<"U+266A">>, FALSE>>, <<"sup", <<"U+2283">>, FALSE>>,
    <<"sup1", <<"U+00B9">>, TRUE>>, <<"sup2", <<"U+00B2">>, TRUE>>,
    <<"sup3", <<"U+00B3">>, TRUE>>, <<"supE", <<"U+2AC6">>, FALSE>>,
    <<"supdot", <<"U+2ABE">>, FALSE>>, <<"supdsub", <<"U+2AD8">>, FALSE>>,
    <<"supe", <<"U+2287">>, FALSE>>, <<"supedot", <<"U+2AC4">>, FALSE>>,
    <<"suphsol", <<"U+27C9">>, FALSE>>, <<"suphsub", <<"U+2AD7">>, FALSE>>,
    <<"suplarr", <<"U+297B">>, FALSE>>, <<"supmult", <<"U+2AC2">>, FALSE>>,
    <<"supnE", <<"U+2ACC">>, FALSE>>, <<"supne", <<"U+228B">>, FALSE>>,
    <<"supplus", <<"U+2AC0">>, FALSE>>, <<"supset", <<"U+2283">>, FALSE>>,
    <<"supseteq", <<"U+2287">>, FALSE>>,
    <<"supseteqq", <<"U+2AC6">>, FALSE>>,
    <<"supsetneq", <<"U+228B">>, FALSE>>,
    <<"supsetneqq", <<"U+2ACC">>, FALSE>>, <<"supsim", <<"U+2AC8">>, FALSE>>,
    <<"supsub", <<"U+2AD4">>, FALSE>>, <<"supsup", <<"U+2AD6">>, FALSE>>,
    <<"swArr", <<"U+21D9">>, FALSE>>, <<"swarhk", <<"U+2926">>, FALSE>>,
    <<"swarr", <<"U+2199">>, FALSE>>, <<"swarrow", <<"U+2199">>, FALSE>>,
    <<"swnwar", <<"U+292A">>, FALSE>>, <<"szlig", <<"U+00DF">>, TRUE>>,
    <<"target", <<"U+2316">>, FALSE>>, <<"tau", <<"U+03C4">>, FALSE>>,
    <<"tbrk", <<"U+23B4">>, FALSE>>, <<"tcaron", <<"U+0165">>, FALSE>>,
    <<"tcedil", <<"U+0163">>, FALSE>>, <<"tcy", <<"U+0442">>, FALSE>>,
    <<"tdot", <<"U+20DB">>, FALSE>>, <<"telrec", <<"U+2315">>, FALSE>>,
    <<"tfr", <<"U+1D531">>, FALSE>>, <<"there4", <<"U+2234">>, FALSE>>,
    <<"therefore", <<"U+2234">>, FALSE>>, <<"theta", <<"U+03B8">>, FALSE>>,
    <<"thetasym", <<"U+03D1">>, FALSE>>, <<"thetav", <<"U+03D1">>, FALSE>>,
    <<"thickapprox", <<"U+2248">>, FALSE>>,
    <<"thicksim", <<"U+223C">>, FALSE>>, <<"thinsp", <<"U+2009">>, FALSE>>,
    <<"thkap", <<"U+2248">>, FALSE>>, <<"thksim", <<"U+223C">>, FALSE>>,
    <<"thorn", <<"U+00FE">>, TRUE>>, <<"tilde", <<"U+02DC">>, FALSE>>,
    <<"times", <<"U+00D7">>, TRUE>>, <<"timesb", <<"U+22A0">>, FALSE>>,
    <<"timesbar", <<"U+2A31">>, FALSE>>, <<"timesd", <<"U+2A30">>, FALSE>>,
    <<"tint", <<"U+222D">>, FALSE>>, <<"toea", <<"U+2928">>, FALSE>>,
    <<"top", <<"U+22A4">>, FALSE>>, <<"topbot", <<"U+2336">>, FALSE>>,
    <<"topcir", <<"U+2AF1">>, FALSE>>, <<"topf", <<"U+1D565">>, FALSE>>,
    <<"topfork", <<"U+2ADA">>, FALSE>>, <<"tosa", <<"U+2929">>, FALSE>>,
    <<"tprime", <<"U+2034">>, FALSE>>, <<"trade", <<"U+2122">>, FALSE>>,
    <<"triangle", <<"U+25B5">>, FALSE>>,
    <<"triangledown", <<"U+25BF">>, FALSE>>,
    <<"triangleleft", <<"U+25C3">>, FALSE>>,
    <<"trianglelefteq", <<"U+22B4">>, FALSE>>,
    <<"triangleq", <<"U+225C">>, FALSE>>,
    <<"triangleright", <<"U+25B9">>, FALSE>>,
    <<"trianglerighteq", <<"U+22B5">>, FALSE>>,
    <<"tridot", <<"U+25EC">>, FALSE>>, <<"trie", <<"U+225C">>, FALSE>>,
    <<"triminus", <<"U+2A3A">>, FALSE>>, <<"triplus", <<"U+2A39">>, FALSE>>,
    <<"trisb", <<"U+29CD">>, FALSE>>, <<"tritime", <<"U+2A3B">>, FALSE>>,
    <<"trpezium", <<"U+23E2">>, FALSE>>, <<"tscr", <<"U+1D4C9">>, FALSE>>,
    <<"tscy", <<"U+0446">>, FALSE>>, <<"tshcy", <<"U+045B">>, FALSE>>,
    <<"tstrok", <<"U+0167">>, FALSE>>, <<"twixt", <<"U+226C">>, FALSE>>,
    <<"twoheadleftarrow", <<"U+219E">>, FALSE>>,
    <<"twoheadrightarrow", <<"U+21A0">>, FALSE>>,
    <<"uArr", <<"U+21D1">>, FALSE>>, <<"uHar", <<"U+2963">>, FALSE>>,
    <<"uacute", <<"U+00FA">>, TRUE>>, <<"uarr", <<"U+2191">>, FALSE>>,
    <<"ubrcy", <<"U+045E">>, FALSE>>, <<"ubreve", <<"U+016D">>, FALSE>>,
    <<"ucirc", <<"U+00FB">>, TRUE>>, <<"ucy", <<"U+0443">>, FALSE>>,
    <<"udarr", <<"U+21C5">>, FALSE>>, <<"udblac", <<"U+0171">>, FALSE>>,
    <<"udhar", <<"U+296E">>, FALSE>>, <<"ufisht", <<"U+297E">>, FALSE>>,
    <<"ufr", <<"U+1D532">>, FALSE>>, <<"ugrave", <<"U+00F9">>, TRUE>>,
    <<"uharl", <<"U+21BF">>, FALSE>>, <<"uharr", <<"U+21BE">>, FALSE>>,
    <<"uhblk", <<"U+2580">>, FALSE>>, <<"ulcorn", <<"U+231C">>, FALSE>>,
    <<"ulcorner", <<"U+231C">>, FALSE>>, <<"ulcrop", <<"U+230F">>, FALSE>>,
    <<"ultri", <<"U+25F8">>, FALSE>>, <<"umacr", <<"U+016B">>, FALSE>>,
    <<"uml", <<"U+00A8">>, TRUE>>, <<"uogon", <<"U+0173">>, FALSE>>,
    <<"uopf", <<"U+1D566">>, FALSE>>, <<"uparrow", <<"U+2191">>, FALSE>>,
    <<"updownarrow", <<"U+2195">>, FALSE>>,
    <<"upharpoonleft", <<"U+21BF">>, FALSE>>,
    <<"upharpoonright", <<"U+21BE">>, FALSE>>,
    <<"uplus", <<"U+228E">>, FALSE>>, <<"upsi", <<"U+03C5">>, FALSE>>,
    <<"upsih", <<"U+03D2">>, FALSE>>, <<"upsilon", <<"U+03C5">>, FALSE>>,
    <<"upuparrows", <<"U+21C8">>, FALSE>>, <<"urcorn", <<"U+231D">>, FALSE>>,
    <<"urcorner", <<"U+231D">>, FALSE>>, <<"urcrop", <<"U+230E">>, FALSE>>,
    <<"uring", <<"U+016F">>, FALSE>>, <<"urtri", <<"U+25F9">>, FALSE>>,
    <<"uscr", <<"U+1D4CA">>, FALSE>>, <<"utdot", <<"U+22F0">>, FALSE>>,
    <<"utilde", <<"U+0169">>, FALSE>>, <<"utri", <<"U+25B5">>, FALSE>>,
    <<"utrif", <<"U+25B4">>, FALSE>>, <<"uuarr", <<"U+21C8">>, FALSE>>,
    <<"uuml", <<"U+00FC">>, TRUE>>, <<"uwangle", <<"U+29A7">>, FALSE>>,
    <<"vArr", <<"U+21D5">>, FALSE>>, <<"vBar", <<"U+2AE8">>, FALSE>>,
    <<"vBarv", <<"U+2AE9">>, FALSE>>, <<"vDash", <<"U+22A8">>, FALSE>>,
    <<"vangrt", <<"U+299C">>, FALSE>>, <<"varepsilon", <<"U+03F5">>, FALSE>>,
    <<"varkappa", <<"U+03F0">>, FALSE>>,
    <<"varnothing", <<"U+2205">>, FALSE>>, <<"varphi", <<"U+03D5">>, FALSE>>,
    <<"varpi", <<"U+03D6">>, FALSE>>, <<"varpropto", <<"U+221D">>, FALSE>>,
    <<"varr", <<"U+2195">>, FALSE>>, <<"varrho", <<"U+03F1">>, FALSE>>,
    <<"varsigma", <<"U+03C2">>, FALSE>>,
    <<"varsubsetneq", <<"U+228A", "U+FE00">>, FALSE>>,
    <<"varsubsetneqq", <<"U+2ACB", "U+FE00">>, FALSE>>,
    <<"varsupsetneq", <<"U+228B", "U+FE00">>, FALSE>>,
    <<"varsupsetneqq", <<"U+2ACC", "U+FE00">>, FALSE>>,
    <<"vartheta", <<"U+03D1">>, FALSE>>,
    <<"vartriangleleft", <<"U+22B2">>, FALSE>>,
    <<"vartriangleright", <<"U+22B3">>, FALSE>>,
    <<"vcy", <<"U+0432">>, FALSE>>, <<"vdash", <<"U+22A2">>, FALSE>>,
    <<"vee", <<"U+2228">>, FALSE>>, <<"veebar", <<"U+22BB">>, FALSE>>,
    <<"veeeq", <<"U+225A">>, FALSE>>, <<"vellip", <<"U+22EE">>, FALSE>>,
    <<"verbar", <<"|">>, FALSE>>, <<"vert", <<"|">>, FALSE>>,
    <<"vfr", <<"U+1D533">>, FALSE>>, <<"vltri", <<"U+22B2">>, FALSE>>,
    <<"vnsub", <<"U+2282", "U+20D2">>, FALSE>>,
    <<"vnsup", <<"U+2283", "U+20D2">>, FALSE>>,
    <<"vopf", <<"U+1D567">>, FALSE>>, <<"vprop", <<"U+221D">>, FALSE>>,
    <<"vrtri", <<"U+22B3">>, FALSE>>, <<"vscr", <<"U+1D4CB">>, FALSE>>,
    <<"vsubnE", <<"U+2ACB", "U+FE00">>, FALSE>>,
    <<"vsubne", <<"U+228A", "U+FE00">>, FALSE>>,
    <<"vsupnE", <<"U+2ACC", "U+FE00">>, FALSE>>,
    <<"vsupne", <<"U+228B", "U+FE00">>, FALSE>>,
    <<"vzigzag", <<"U+299A">>, FALSE>>, <<"wcirc", <<"U+0175">>, FALSE>>,
    <<"wedbar", <<"U+2A5F">>, FALSE>>, <<"wedge", <<"U+2227">>, FALSE>>,
    <<"wedgeq", <<"U+2259">>, FALSE>>, <<"weierp", <<"U+2118">>, FALSE>>,
    <<"wfr", <<"U+1D534">>, FALSE>>, <<"wopf", <<"U+1D568">>, FALSE>>,
    <<"wp", <<"U+2118">>, FALSE>>, <<"wr", <<"U+2240">>, FALSE>>,
    <<"wreath", <<"U+2240">>, FALSE>>, <<"wscr", <<"U+1D4CC">>, FALSE>>,
    <<"xcap", <<"U+22C2">>, FALSE>>, <<"xcirc", <<"U+25EF">>, FALSE>>,
    <<"xcup", <<"U+22C3">>, FALSE>>, <<"xdtri", <<"U+25BD">>, FALSE>>,
    <<"xfr", <<"U+1D535">>, FALSE>>, <<"xhArr", <<"U+27FA">>, FALSE>>,
    <<"xharr", <<"U+27F7">>, FALSE>>, <<"xi", <<"U+03BE">>, FALSE>>,
    <<"xlArr", <<"U+27F8">>, FALSE>>, <<"xlarr", <<"U+27F5">>, FALSE>>,
    <<"xmap", <<"U+27FC">>, FALSE>>, <<"xnis", <<"U+22FB">>, FALSE>>,
    <<"xodot", <<"U+2A00">>, FALSE>>, <<"xopf", <<"U+1D569">>, FALSE>>,
    <<"xoplus", <<"U+2A01">>, FALSE>>, <<"xotime", <<"U+2A02">>, FALSE>>,
    <<"xrArr", <<"U+27F9">>, FALSE>>, <<"xrarr", <<"U+27F6">>, FALSE>>,
    <<"xscr", <<"U+1D4CD">>, FALSE>>, <<"xsqcup", <<"U+2A06">>, FALSE>>,
    <<"xuplus", <<"U+2A04">>, FALSE>>, <<"xutri", <<"U+25B3">>, FALSE>>,
    <<"xvee", <<"U+22C1">>, FALSE>>, <<"xwedge", <<"U+22C0">>, FALSE>>,
    <<"yacute", <<"U+00FD">>, TRUE>>, <<"yacy", <<"U+044F">>, FALSE>>,
    <<"ycirc", <<"U+0177">>, FALSE>>, <<"ycy", <<"U+044B">>, FALSE>>,
    <<"yen", <<"U+00A5">>, TRUE>>, <<"yfr", <<"U+1D536">>, FALSE>>,
    <<"yicy", <<"U+0457">>, FALSE>>, <<"yopf", <<"U+1D56A">>, FALSE>>,
    <<"yscr", <<"U+1D4CE">>, FALSE>>, <<"yucy", <<"U+044E">>, FALSE>>,
    <<"yuml", <<"U+00FF">>, TRUE>>, <<"zacute", <<"U+017A">>, FALSE>>,
    <<"zcaron", <<"U+017E">>, FALSE>>, <<"zcy", <<"U+0437">>, FALSE>>,
    <<"zdot", <<"U+017C">>, FALSE>>, <<"zeetrf", <<"U+2128">>, FALSE>>,
    <<"zeta", <<"U+03B6">>, FALSE>>, <<"zfr", <<"U+1D537">>, FALSE>>,
    <<"zhcy", <<"U+0436">>, FALSE>>, <<"zigrarr", <<"U+21DD">>, FALSE>>,
    <<"zopf", <<"U+1D56B">>, FALSE>>, <<"zscr", <<"U+1D4CF">>, FALSE>>,
    <<"zwj", <<"U+200D">>, FALSE>>, <<"zwnj", <<"U+200C">>, FALSE>>>>

\* the bytes 0x80 to 0x9F decoded as windows-1252 (a byte the code page
\* leaves undefined stands for the control character of its number)
Cp1252 ==
  <<<<128, "U+20AC">>, <<129, "U+0081">>, <<130, "U+201A">>,
    <<131, "U+0192">>, <<132, "U+201E">>, <<133, "U+2026">>,
    <<134, "U+2020">>, <<135, "U+2021">>, <<136, "U+02C6">>,
    <<137, "U+2030">>, <<138, "U+0160">>, <<139, "U+2039">>,
    <<140, "U+0152">>, <<141, "U+008D">>, <<142, "U+017D">>,
    <<143, "U+008F">>, <<144, "U+0090">>, <<145, "U+2018">>,
    <<146, "U+2019">>, <<147, "U+201C">>, <<148, "U+201D">>,
    <<149, "U+2022">>, <<150, "U+2013">>, <<151, "U+2014">>,
    <<152, "U+02DC">>, <<153, "U+2122">>, <<154, "U+0161">>,
    <<155, "U+203A">>, <<156, "U+0153">>, <<157, "U+009D">>,
    <<158, "U+017E">>, <<159, "U+0178">>>>

RECURSIVE Flatten(_, _, _)
\* "".join(parts[lo..hi]); the range is halved, so that the evaluation
\* nests no deeper than the logarithm of the number of parts
Flatten(parts, lo, hi) ==
  IF lo > hi THEN <<>>
  ELSE IF lo = hi THEN parts[lo]
  ELSE Flatten(parts, lo, (lo + hi) \div 2) \o Flatten(parts, (lo + hi) \div 2 + 1, hi)

\* <<start tag token, end tag token, tag name, text of the start tag, text
\* of the end tag>>: a tag token abbreviates its text (the two div tags of
\* the fallback carry their whole style attribute)
MarkupTags ==
  << <<"<entry>", "</entry>", "entry",
       <<"<", "e", "n", "t", "r", "y", ">">>,
       <<"<", "/", "e", "n", "t", "r", "y", ">">>>>,
     <<"<k>", "</k>", "k",
       <<"<", "k", ">">>,
       <<"<", "/", "k", ">">>>>,
     <<"<blockquote>", "</blockquote>", "blockquote",
       <<"<", "b", "l", "o", "c", "k", "q", "u", "o", "t", "e", ">">>,
       <<"<", "/", "b", "l", "o", "c", "k", "q", "u", "o", "t", "e", ">">>>>,
     <<"<b>", "</b>", "b",
       <<"<", "b", ">">>,
       <<"<", "/", "b", ">">>>>,
     <<"<i>", "</i>", "i",
       <<"<", "i", ">">>,
       <<"<", "/", "i", ">">>>>,
     <<"<c c=green>", "</c>", "c",
       <<"<", "c", " ", "c", "=", "\"", "g", "r", "e", "e", "n", "\"", ">">>,
       <<"<", "/", "c", ">">>>>,
     <<"<c c=orange>", "</c>", "c",
       <<"<", "c", " ", "c", "=", "\"", "o", "r", "a", "n", "g", "e", "\"", ">">>,
       <<"<", "/", "c", ">">>>>,
     <<"<c c=blue>", "</c>", "c",
       <<"<", "c", " ", "c", "=", "\"", "b", "l", "u", "e", "\"", ">">>,
       <<"<", "/", "c", ">">>>>,
     <<"<rref>", "</rref>", "rref",
       <<"<", "r", "r", "e", "f", ">">>,
       <<"<", "/", "r", "r", "e", "f", ">">>>>,
     <<"<audio>", "</audio>", "audio",
       <<"<", "a", "u", "d", "i", "o", ">">>,
       <<"<", "/", "a", "u", "d", "i", "o", ">">>>>,
     <<"<h1>", "</h1>", "h1",
       <<"<", "h", "1", ">">>,
       <<"<", "/", "h", "1", ">">>>>,
     <<"<h2>", "</h2>", "h2",
       <<"<", "h", "2", ">">>,
       <<"<", "/", "h", "2", ">">>>>,
     <<"<h3>", "</h3>", "h3",
       <<"<", "h", "3", ">">>,
       <<"<", "/", "h", "3", ">">>>>,
     <<"<h4>", "</h4>", "h4",
       <<"<", "h", "4", ">">>,
       <<"<", "/", "h", "4", ">">>>>,
     <<"<h5>", "</h5>", "h5",
       <<"<", "h", "5", ">">>,
       <<"<", "/", "h", "5", ">">>>>,
     <<"<h6>", "</h6>", "h6",
       <<"<", "h", "6", ">">>,
       <<"<", "/", "h", "6", ">">>>>,
     <<"<h1 class=entry-headword>", "</h1>", "h1",
       <<"<", "h", "1", " ", "c", "l", "a", "s", "s", "=", "\"", "e", "n", "t", "r", "y", "-", "h", "e", "a", "d", "w", "o", "r", "d", "\"", ">">>,
       <<"<", "/", "h", "1", ">">>>>,
     <<"<h2 class=entry-headword>", "</h2>", "h2",
       <<"<", "h", "2", " ", "c", "l", "a", "s", "s", "=", "\"", "e", "n", "t", "r", "y", "-", "h", "e", "a", "d", "w", "o", "r", "d", "\"", ">">>,
       <<"<", "/", "h", "2", ">">>>>,
     <<"<h3 class=entry-headword>", "</h3>", "h3",
       <<"<", "h", "3", " ", "c", "l", "a", "s", "s", "=", "\"", "e", "n", "t", "r", "y", "-", "h", "e", "a", "d", "w", "o", "r", "d", "\"", ">">>,
       <<"<", "/", "h", "3", ">">>>>,
     <<"<h4 class=entry-headword>", "</h4>", "h4",
       <<"<", "h", "4", " ", "c", "l", "a", "s", "s", "=", "\"", "e", "n", "t", "r", "y", "-", "h", "e", "a", "d", "w", "o", "r", "d", "\"", ">">>,
       <<"<", "/", "h", "4", ">">>>>,
     <<"<h5 class=entry-headword>", "</h5>", "h5",
       <<"<", "h", "5", " ", "c", "l", "a", "s", "s", "=", "\"", "e", "n", "t", "r", "y", "-", "h", "e", "a", "d", "w", "o", "r", "d", "\"", ">">>,
       <<"<", "/", "h", "5", ">">>>>,
     <<"<h6 class=entry-headword>", "</h6>", "h6",
       <<"<", "h", "6", " ", "c", "l", "a", "s", "s", "=", "\"", "e", "n", "t", "r", "y", "-", "h", "e", "a", "d", "w", "o", "r", "d", "\"", ">">>,
       <<"<", "/", "h", "6", ">">>>>,
     <<"<h2 class=pos-label>", "</h2>", "h2",
       <<"<", "h", "2", " ", "c", "l", "a", "s", "s", "=", "\"", "p", "o", "s", "-", "l", "a", "b", "e", "l", "\"", ">">>,
       <<"<", "/", "h", "2", ">">>>>,
     <<"<h3 class=pos-label>", "</h3>", "h3",
       <<"<", "h", "3", " ", "c", "l", "a", "s", "s", "=", "\"", "p", "o", "s", "-", "l", "a", "b", "e", "l", "\"", ">">>,
       <<"<", "/", "h", "3", ">">>>>,
     <<"<h4 class=pos-label>", "</h4>", "h4",
       <<"<", "h", "4", " ", "c", "l", "a", "s", "s", "=", "\"", "p", "o", "s", "-", "l", "a", "b", "e", "l", "\"", ">">>,
       <<"<", "/", "h", "4", ">">>>>,
     <<"<h5 class=pos-label>", "</h5>", "h5",
       <<"<", "h", "5", " ", "c", "l", "a", "s", "s", "=", "\"", "p", "o", "s", "-", "l", "a", "b", "e", "l", "\"", ">">>,
       <<"<", "/", "h", "5", ">">>>>,
     <<"<h6 class=pos-label>", "</h6>", "h6",
       <<"<", "h", "6", " ", "c", "l", "a", "s", "s", "=", "\"", "p", "o", "s", "-", "l", "a", "b", "e", "l", "\"", ">">>,
       <<"<", "/", "h", "6", ">">>>>,
     <<"<article class=concise-oxford-entry>", "</article>", "article",
       <<"<", "a", "r", "t", "i", "c", "l", "e", " ", "c", "l", "a", "s", "s", "=", "\"", "c", "o", "n", "c", "i", "s", "e", "-", "o", "x", "f", "o", "r", "d", "-", "e", "n", "t", "r", "y", "\"", ">">>,
       <<"<", "/", "a", "r", "t", "i", "c", "l", "e", ">">>>>,
     <<"<section class=pos-block>", "</section>", "section",
       <<"<", "s", "e", "c", "t", "i", "o", "n", " ", "c", "l", "a", "s", "s", "=", "\"", "p", "o", "s", "-", "b", "l", "o", "c", "k", "\"", ">">>,
       <<"<", "/", "s", "e", "c", "t", "i", "o", "n", ">">>>>,
     <<"<ol class=sense-list>", "</ol>", "ol",
       <<"<", "o", "l", " ", "c", "l", "a", "s", "s", "=", "\"", "s", "e", "n", "s", "e", "-", "l", "i", "s", "t", "\"", ">">>,
       <<"<", "/", "o", "l", ">">>>>,
     <<"<ul>", "</ul>", "ul",
       <<"<", "u", "l", ">">>,
       <<"<", "/", "u", "l", ">">>>>,
     <<"<li>", "</li>", "li",
       <<"<", "l", "i", ">">>,
       <<"<", "/", "l", "i", ">">>>>,
     <<"<p>", "</p>", "p",
       <<"<", "p", ">">>,
       <<"<", "/", "p", ">">>>>,
     <<"<span class=sense-marker>", "</span>", "span",
       <<"<", "s", "p", "a", "n", " ", "c", "l", "a", "s", "s", "=", "\"", "s", "e", "n", "s", "e", "-", "m", "a", "r", "k", "e", "r", "\"", ">">>,
       <<"<", "/", "s", "p", "a", "n", ">">>>>,
     <<"<strong class=section-label>", "</strong>", "strong",
       <<"<", "s", "t", "r", "o", "n", "g", " ", "c", "l", "a", "s", "s", "=", "\"", "s", "e", "c", "t", "i", "o", "n", "-", "l", "a", "b", "e", "l", "\"", ">">>,
       <<"<", "/", "s", "t", "r", "o", "n", "g", ">">>>>,
     <<"<div class=sense-note>", "</div>", "div",
       <<"<", "d", "i", "v", " ", "c", "l", "a", "s", "s", "=", "\"", "s", "e", "n", "s", "e", "-", "n", "o", "t", "e", "\"", ">">>,
       <<"<", "/", "d", "i", "v", ">">>>>,
     <<"<div class=dict-block>", "</div>", "div",
       <<"<", "d", "i", "v", " ", "c", "l", "a", "s", "s", "=", "\"", "d", "i", "c", "t", "-", "b", "l", "o", "c", "k", "\"", " ", "s", "t", "y", "l", "e", "=", "\"", "m", "a", "r", "g", "i", "n", ":", "0", " ", "0", " ", ".", "5", "e", "m", " ", "0", ";", " ", "p", "a", "d", "d", "i", "n", "g", ":", "0", ".", "3", "5", "e", "m", " ", "0", ".", "6", "e", "m", ";", " ", "b", "o", "r", "d", "e", "r", "-", "l", "e", "f", "t", ":", "0", ";", "\"", ">">>,
       <<"<", "/", "d", "i", "v", ">">>>>,
     <<"<div style=border-top>", "</div>", "div",
       <<"<", "d", "i", "v", " ", "s", "t", "y", "l", "e", "=", "\"", "b", "o", "r", "d", "e", "r", "-", "t", "o", "p", ":", "1", "p", "x", " ", "s", "o", "l", "i", "d", " ", "#", "e", "e", "e", ";", " ", "m", "a", "r", "g", "i", "n", ":", "0", ".", "5", "e", "m", " ", "0", ";", "\"", ">">>,
       <<"<", "/", "d", "i", "v", ">">>>>,
     <<"<none>", "</none>", "none",
       <<"<", "n", "o", "n", "e", ">">>,
       <<"<", "/", "n", "o", "n", "e", ">">>>>,
     <<"<None>", "</None>", "none",
       <<"<", "N", "o", "n", "e", ">">>,
       <<"<", "/", "N", "o", "n", "e", ">">>>> >>

\* the characters of <section class="entry-section entry-section-{name}">
SectionTagChars(section_key) ==
  <<"<", "s", "e", "c", "t", "i", "o", "n", " ", "c", "l", "a", "s", "s", "=", "\"",
    "e", "n", "t", "r", "y", "-", "s", "e", "c", "t", "i", "o", "n", " ",
    "e", "n", "t", "r", "y", "-", "s", "e", "c", "t", "i", "o", "n", "-">>
  \o _section_class_name(section_key) \o <<"\"", ">">>

\* the tags of the markup and the section tags the renderer writes
TagDefs ==
  MarkupTags
  \o [i \in DOMAIN SectionKeyChars |->
        <<SectionTag(SectionKeyChars[i][1]), "</section>", "section",
          SectionTagChars(SectionKeyChars[i][1]),
          <<"<", "/", "s", "e", "c", "t", "i", "o", "n", ">">> >>]

\* the row of a table whose first column is the key
Row(table, key) == table[CHOOSE i \in DOMAIN table : table[i][1] = key]

StartTags == { TagDefs[i][1] : i \in DOMAIN TagDefs }

EndTags == { TagDefs[i][2] : i \in DOMAIN TagDefs }

TagName(tok) == Row(TagDefs, tok)[3]

EndTagOf(tok) == Row(TagDefs, tok)[2]

\* character references of the markup and the characters they stand for
CharRefs == << <<"&amp;", "&">>, <<"&lt;", "<">>, <<"&gt;", ">">> >>

\* the references html.escape writes when quote is true (its default):
\* the three above, then the two quotation marks
EscapeRefs == CharRefs \o << <<"&quot;", "\"">>, <<"&#x27;", "'">> >>

\* the token that stands for a character in serialized text
TokenOf(refs, c) ==
  IF \E i \in DOMAIN refs : refs[i][2] = c
    THEN refs[CHOOSE i \in DOMAIN refs : refs[i][2] = c][1]
    ELSE c

\* html.escape(text)
escape(text) == [i \in DOMAIN text |-> TokenOf(EscapeRefs, text[i])]

\* the entity substitution of Tag.decode() with the formatter "minimal":
\* &, < and > are replaced, quotation marks in text are left as they are
substitute_xml(text) == [i \in DOMAIN text |-> TokenOf(CharRefs, text[i])]

\* the text of a reference token, character by character
RefChars ==
  << <<"&amp;", <<"&", "a", "m", "p", ";">> >>,
     <<"&lt;", <<"&", "l", "t", ";">> >>,
     <<"&gt;", <<"&", "g", "t", ";">> >>,
     <<"&quot;", <<"&", "q", "u", "o", "t", ";">> >>,
     <<"&#x27;", <<"&", "#", "x", "2", "7", ";">> >> >>

\* the characters a token stands for
TokenChars(tok) ==
  IF tok \in StartTags THEN Row(TagDefs, tok)[4]
  ELSE IF tok \in EndTags
    THEN TagDefs[CHOOSE i \in DOMAIN TagDefs : TagDefs[i][2] = tok][5]
  ELSE IF \E i \in DOMAIN RefChars : RefChars[i][1] = tok THEN Row(RefChars, tok)[2]
  ELSE <<tok>>

\* the characters of an HTML string
Chars(html) == Flatten([i \in DOMAIN html |-> TokenChars(html[i])], 1, Len(html))

\* least element of a non-empty set of integers
MinOf(S) == CHOOSE i \in S : \A j \in S : i <= j

\* least element of S, or `none` when S is empty
MinOr(S, none) == IF S = {} THEN none ELSE MinOf(S)

\* greatest element of S, or `none` when S is empty
MaxOr(S, none) == IF S = {} THEN none ELSE CHOOSE i \in S : \A j \in S : j <= i

\* s[k], or "" when s has no such index (the end of the input)
Ch(s, k) == IF k \in DOMAIN s THEN s[k] ELSE ""

\* the first index from lo on whose character passes the test,
\* Len(s) + 1 when none does
Find(s, lo, Test(_)) == MinOr({ k \in lo..Len(s) : Test(s[k]) }, Len(s) + 1)

\* ---- html.unescape, applied by html.parser to an attribute value ----
\* the value of a digit
DigitOf(c) == (CHOOSE k \in DOMAIN HexDigits : HexDigits[k] = UpperChar(c)) - 1

RECURSIVE IntOf(_, _)
IntOf(digits, base) ==
  IF digits = <<>> THEN 0
  ELSE IntOf(SubSeq(digits, 1, Len(digits) - 1), base) * base
       + DigitOf(digits[Len(digits)])

\* int(digits, base) of the digits without their leading zeros; every
\* number above the last code point is told as 1114112 (0x110000)
IntCapped(sig, base) ==
  IF Len(sig) > 7 \/ IntOf(sig, base) > 1114111 THEN 1114112 ELSE IntOf(sig, base)

\* int(digits, base)
ParseInt(digits, base) ==
  IntCapped(SubSeq(digits, Find(digits, 1, LAMBDA c : c # "0"), Len(digits)), base)

\* html._invalid_codepoints
IsInvalidCodepoint(n) ==
  \/ n \in 1..8 \/ n = 11 \/ n \in 14..31 \/ n \in 127..159
  \/ n \in 64976..65007
  \/ (n % 65536) \in {65534, 65535}

\* _replace_charref for a numeric reference: html._invalid_charrefs (NUL,
\* CR and the windows-1252 bytes) first, then the code points that are
\* replaced or dropped
NumericRef(num) ==
  IF num = 0 THEN <<"U+FFFD">>
  ELSE IF num = 13 THEN <<"\r">>
  ELSE IF num \in 128..159 THEN <<Cp1252[num - 127][2]>>
  ELSE IF num \in 55296..57343 \/ num > 1114111 THEN <<"U+FFFD">>
  ELSE IF IsInvalidCodepoint(num) THEN <<>>
  ELSE <<Chr(num)>>

\* name in html5 (with the ";"), or as a reference without the ";"
IsEntity(name, legacy) ==
  \E i \in DOMAIN HtmlEntities :
    HtmlEntities[i][1] = name /\ (legacy => HtmlEntities[i][3])

EntityValue(name) == Row(HtmlEntities, name)[2]

\* the longest proper beginning of the reference that is a name without
\* ";" (for x in range(len(s) - 1, 1, -1)), 0 when there is none
LegacyPrefix(name, longest) ==
  MaxOr({ x \in 2..longest : IsEntity(TokenText(SubSeq(name, 1, x)), TRUE) }, 0)

\* the characters behind the name of a reference that ends in ";"
Semicolon(semi) == IF semi THEN <<";">> ELSE <<>>

\* the named reference read as the beginning x of its name
PrefixRef(name, semi, x) ==
  IF x = 0 THEN <<"&">> \o name \o Semicolon(semi)
  ELSE EntityValue(TokenText(SubSeq(name, 1, x)))
       \o SubSeq(name, x + 1, Len(name)) \o Semicolon(semi)

\* _replace_charref for a named reference
NamedRef(name, semi) ==
  IF IsEntity(TokenText(name), ~semi) THEN EntityValue(TokenText(name))
  ELSE PrefixRef(name, semi,
                 LegacyPrefix(name, IF semi THEN Len(name) ELSE Len(name) - 1))

\* a character of the class [^\t\n\f <&#;]
IsRefNameChar(c) == c \notin {"\t", "\n", "\f", " ", "<", "&", "#", ";"}

RECURSIVE unescape_from(_, _)

\* the replacement of the reference whose body ends before e, then the
\* rest of the value
RefThen(v, e, chars) ==
  chars \o unescape_from(v, IF Ch(v, e) = ";" THEN e + 1 ELSE e)

\* the "&" at a: #[0-9]+;? or #[xX][0-9a-fA-F]+;? or a name of 1 to 32
\* characters and ";?"; an "&" that none of them matches stays
RefAt(v, a, e) ==
  IF Ch(v, a + 1) = "#" /\ IsDigit(Ch(v, a + 2))
    THEN RefThen(v, Find(v, a + 2, LAMBDA c : ~IsDigit(c)),
                 NumericRef(ParseInt(
                   SubSeq(v, a + 2, Find(v, a + 2, LAMBDA c : ~IsDigit(c)) - 1), 10)))
  ELSE IF Ch(v, a + 1) = "#" /\ Ch(v, a + 2) \in {"x", "X"} /\ IsHexDigit(Ch(v, a + 3))
    THEN RefThen(v, Find(v, a + 3, LAMBDA c : ~IsHexDigit(c)),
                 NumericRef(ParseInt(
                   SubSeq(v, a + 3, Find(v, a + 3, LAMBDA c : ~IsHexDigit(c)) - 1), 16)))
  ELSE IF e = a + 1 THEN <<"&">> \o unescape_from(v, a + 1)
  ELSE RefThen(v, e, NamedRef(SubSeq(v, a + 1, e - 1), Ch(v, e) = ";"))

\* the value from i on, the next "&" being at a
UnescapeAt(v, i, a) ==
  IF a > Len(v) THEN SubSeq(v, i, Len(v))
  ELSE SubSeq(v, i, a - 1)
       \o RefAt(v, a, MinOf({Find(v, a + 1, LAMBDA c : ~IsRefNameChar(c)), a + 33}))

unescape_from(v, i) == UnescapeAt(v, i, Find(v, i, LAMBDA c : c = "&"))

\* html.unescape(value)
unescape(v) == unescape_from(v, 1)

\* ---- html.parser.HTMLParser (convert_charrefs is False) ----
\* Not among the inputs are "<!" and "<?" (comments, declarations and
\* processing instructions), "</" before a character that begins neither a
\* name nor ">" (a comment as well), and the elements script, style (their
\* content is read as CDATA) and meta (its charset is rewritten when the
\* tree is written).

\* what goahead does at one place of the input: the handler it calls
\* (kind, with the name and attributes of a tag or the characters of
\* data), the place it goes on at, and whether it leaves its loop there
Event(kind, name, attrs, data, next, brk) ==
  [kind |-> kind, name |-> name, attrs |-> attrs, data |-> data,
   next |-> next, brk |-> brk]

\* handle_data(rawdata[i:next])
DataTo(s, i, next) == Event("data", <<>>, <<>>, SubSeq(s, i, next - 1), next, FALSE)

\* break: the loop is left at i with nothing read
Break(i) == Event("none", <<>>, <<>>, <<>>, i, TRUE)

\* a tag that does not end (parse_starttag or parse_endtag gives -1): the
\* first pass stops in front of it; the pass of close() hands on as data
\* the text through the next ">", else up to the next "<", else the "<"
Unfinished(s, i, end) ==
  IF ~end THEN Break(i)
  ELSE IF Find(s, i + 1, LAMBDA c : c = ">") <= Len(s)
    THEN DataTo(s, i, Find(s, i + 1, LAMBDA c : c = ">") + 1)
  ELSE IF Find(s, i + 1, LAMBDA c : c = "<") <= Len(s)
    THEN DataTo(s, i, Find(s, i + 1, LAMBDA c : c = "<"))
  ELSE DataTo(s, i, i + 1)

\* a character that ends the name in a start tag: [\t\n\r\f />\x00]
IsNameStop(c) == c \in {"\t", "\n", "\r", "\f", " ", "/", ">", "U+0000"}

\* (?:\s|/(?!>))* from p on: the first index it does not match
SepStar(s, p) ==
  MinOr({ k \in p..Len(s) :
            ~(IsSpace(s[k]) \/ (s[k] = "/" /\ Ch(s, k + 1) # ">")) },
        Len(s) + 1)

\* the optional group (\s*=+\s*(value)) of attrfind_tolerant: whether it
\* matches, where it ends, and the value s[lo..hi] without its quotes
Value(has, next, lo, hi) == [has |-> has, next |-> next, lo |-> lo, hi |-> hi]

\* (?![\'"])[^>\s]* from c on
BareValue(s, c, e) == Value(TRUE, e, c, e - 1)

\* the value behind the "=" at a..b-1 and the blanks at b..c-1.  A quoted
\* value needs its closing quote (at e); without one the blank before the
\* quote is given back and the value is empty, or the last of several "="
\* is given back and begins the value, or the group does not match
ValueAt(s, a, b, c, e) ==
  IF Ch(s, c) \notin {"\"", "'"}
    THEN BareValue(s, c, Find(s, c, LAMBDA x : x = ">" \/ IsSpace(x)))
  ELSE IF e # 0 THEN Value(TRUE, e + 1, c + 1, e - 1)
  ELSE IF c > b THEN Value(TRUE, c - 1, c, c - 1)
  ELSE IF b - a >= 2
    THEN BareValue(s, b - 1, Find(s, b - 1, LAMBDA x : x = ">" \/ IsSpace(x)))
  ELSE Value(FALSE, a, a, a - 1)

ValueBehind(s, a, b, c) ==
  ValueAt(s, a, b, c, MinOr({ k \in (c + 1)..Len(s) : s[k] = s[c] }, 0))

ValueFrom(s, a, b) ==
  ValueBehind(s, a, b, Find(s, b, LAMBDA x : ~IsSpace(x)))

\* the group at q, the end of an attribute name
ValueGroup(s, q, a) ==
  IF Ch(s, a) # "=" THEN Value(FALSE, q, q, q - 1)
  ELSE ValueFrom(s, a, Find(s, a, LAMBDA x : x # "="))

RECURSIVE AttrScan(_, _, _)

\* attrs.append((attrname.lower(), unescape(attrvalue))); an attribute
\* without a value has None, which BeautifulSoupHTMLParser.handle_starttag
\* makes ""
AttrWith(s, p, q, vg, attrs) ==
  AttrScan(s, SepStar(s, IF vg.has THEN vg.next ELSE q),
           Append(attrs, <<Lower(SubSeq(s, p, q - 1)),
                           unescape(SubSeq(s, vg.lo, vg.hi))>>))

\* the attribute whose name is s[p..q-1]
AttrAt(s, p, q, attrs) ==
  AttrWith(s, p, q, ValueGroup(s, q, Find(s, q, LAMBDA x : ~IsSpace(x))), attrs)

\* attrfind_tolerant, match after match from p on: an attribute begins
\* behind a quote, whitespace or "/" ((?<=[\'"\s/])), with a character
\* that is none of whitespace, "/" and ">", and its name runs up to one
\* that is whitespace, "/", "=" or ">"
AttrScan(s, p, attrs) ==
  IF \/ p > Len(s)
     \/ ~(Ch(s, p - 1) \in {"'", "\"", "/"} \/ IsSpace(Ch(s, p - 1)))
     \/ IsSpace(s[p])
     \/ s[p] \in {"/", ">"}
    THEN [next |-> p, attrs |-> attrs]
    ELSE AttrAt(s, p,
                Find(s, p + 1, LAMBDA x : IsSpace(x) \/ x \in {"/", "=", ">"}),
                attrs)

\* check_for_whole_start_tag and the end of parse_starttag, j being the
\* end of locatestarttagend_tolerant: ">" ends the tag (a "/" right before
\* it makes it an empty-element tag when no attribute was read), "/>" ends
\* an empty-element tag; at the end of the input, a letter, "=" or "/" the
\* tag is not whole; anything else makes the text read so far data
StartTagEnd(s, i, p, attrs, j, end) ==
  IF Ch(s, j) = ">"
    THEN Event(IF attrs = <<>> /\ Ch(s, j - 1) = "/" THEN "startendtag" ELSE "starttag",
               Lower(SubSeq(s, i + 1, p - 1)), attrs, <<>>, j + 1, FALSE)
  ELSE IF Ch(s, j) = "/" /\ Ch(s, j + 1) = ">"
    THEN Event("startendtag", Lower(SubSeq(s, i + 1, p - 1)), attrs, <<>>, j + 2, FALSE)
  ELSE IF j > Len(s) \/ IsLetter(s[j]) \/ s[j] \in {"=", "/"}
    THEN Unfinished(s, i, end)
  ELSE DataTo(s, i, j)

\* [\s/]* in front of the attributes matches "/" only when none follows
StartTagScanned(s, i, p, sc, end) ==
  StartTagEnd(s, i, p, sc.attrs,
              MinOr({ k \in sc.next..Len(s) :
                        ~(IsSpace(s[k]) \/ (sc.attrs = <<>> /\ s[k] = "/")) },
                    Len(s) + 1),
              end)

\* the tag whose name ends before p
StartTagNamed(s, i, p, end) ==
  StartTagScanned(s, i, p, AttrScan(s, SepStar(s, p), <<>>), end)

\* parse_starttag at the "<" at i, which a letter follows
parse_starttag(s, i, end) ==
  StartTagNamed(s, i, Find(s, i + 2, IsNameStop), end)

\* a character of the name in endtagfind: [-.a-zA-Z0-9:_]
IsEndNameChar(c) == IsAlnum(c) \/ c \in {"-", ".", ":", "_"}

\* endtagfind, </\s*([a-zA-Z][-.a-zA-Z0-9:_]*)\s*>, with the name at
\* a..b-1 and ">" expected at c; else tagfind_tolerant for the name behind
\* "</", the tag then running to the next ">"; else "</>", which is
\* skipped
EndTagAt(s, i, a, b, c) ==
  IF IsLetter(Ch(s, a)) /\ Ch(s, c) = ">"
    THEN Event("endtag", Lower(SubSeq(s, a, b - 1)), <<>>, <<>>, c + 1, FALSE)
  ELSE IF IsLetter(Ch(s, i + 2))
    THEN Event("endtag",
               Lower(SubSeq(s, i + 2, Find(s, i + 3, IsNameStop) - 1)), <<>>, <<>>,
               Find(s, SepStar(s, Find(s, i + 3, IsNameStop)), LAMBDA x : x = ">") + 1,
               FALSE)
  ELSE IF Ch(s, i + 2) = ">" THEN Event("none", <<>>, <<>>, <<>>, i + 3, FALSE)
  ELSE DataTo(s, i, i + 1)

EndTagNamed(s, i, a, b) ==
  EndTagAt(s, i, a, b, Find(s, b, LAMBDA x : ~IsSpace(x)))

EndTagFrom(s, i, a) ==
  EndTagNamed(s, i, a, Find(s, a + 1, LAMBDA x : ~IsEndNameChar(x)))

\* parse_endtag at the "</" at i: without a ">" behind it the tag does
\* not end
parse_endtag(s, i, end) ==
  IF Find(s, i + 1, LAMBDA x : x = ">") > Len(s) THEN Unfinished(s, i, end)
  ELSE EndTagFrom(s, i, Find(s, i + 2, LAMBDA x : ~IsSpace(x)))

\* BeautifulSoupHTMLParser.handle_charref: a number below 256 is read as
\* a windows-1252 byte, a number that is no code point becomes U+FFFD
CharRefText(num) ==
  IF num \in 128..159 THEN <<Cp1252[num - 127][2]>>
  ELSE IF num > 1114111 THEN <<"U+FFFD">>
  ELSE <<Chr(num)>>

\* the reference whose digits are s[lo..b-1]
CharRefTo(s, lo, b, base) ==
  Event("data", <<>>, <<>>, CharRefText(ParseInt(SubSeq(s, lo, b - 1), base)),
        IF s[b] = ";" THEN b + 1 ELSE b, FALSE)

\* goahead at "&#": charref, &#(?:[0-9]+|[xX][0-9a-fA-F]+)[^0-9a-fA-F],
\* matches up to the character b behind the digits; when it does not, the
\* "&#" is data if a ";" comes anywhere behind it, and the loop is left
CharRefAt(s, i, b, hex) ==
  IF ~hex /\ IsDigit(Ch(s, i + 2)) /\ b <= Len(s) /\ ~IsHexDigit(Ch(s, b))
    THEN CharRefTo(s, i + 2, b, 10)
  ELSE IF hex /\ IsHexDigit(Ch(s, i + 3)) /\ b <= Len(s)
    THEN CharRefTo(s, i + 3, b, 16)
  ELSE IF \E k \in i..Len(s) : s[k] = ";"
    THEN Event("data", <<>>, <<>>, <<"&", "#">>, i + 2, TRUE)
  ELSE Break(i)

\* BeautifulSoupHTMLParser.handle_entityref: the character of a name in
\* html5, and "&" with the name (the ";" is lost) for any other
EntityText(name) ==
  IF IsEntity(TokenText(name), FALSE) THEN EntityValue(TokenText(name))
  ELSE <<"&">> \o name

\* goahead at "&" and a letter: entityref, &([a-zA-Z][-.a-zA-Z0-9]*)
\* [^a-zA-Z0-9], matches up to the last character t that is no letter and
\* no digit; when it does not, the loop is left (in the pass of close()
\* the "&" is dropped when one character follows it)
EntityRefAt(s, i, t, end) ==
  IF t # 0
    THEN Event("data", <<>>, <<>>, EntityText(SubSeq(s, i + 1, t - 1)),
               IF s[t] = ";" THEN t + 1 ELSE t, FALSE)
  ELSE IF end /\ Len(s) = i + 1 THEN Event("none", <<>>, <<>>, <<>>, i + 1, TRUE)
  ELSE Break(i)

\* [-.a-zA-Z0-9]
IsEntityNameChar(c) == IsAlnum(c) \/ c \in {"-", "."}

\* the name of the reference ends before b
EntityRefTo(s, i, b, end) ==
  EntityRefAt(s, i,
              MaxOr({ t \in (i + 2)..b : t <= Len(s) /\ ~IsAlnum(s[t]) }, 0),
              end)

\* one turn of the loop of goahead at s[i] (end is true in the pass that
\* close() makes): character data up to the next "<" or "&", a tag, or a
\* reference; a "<" or "&" that begins neither is data, unless it is the
\* last character, where the loop is left
EventAt(s, i, end) ==
  IF s[i] \notin {"<", "&"}
    THEN DataTo(s, i, Find(s, i, LAMBDA c : c \in {"<", "&"}))
  ELSE IF s[i] = "<" /\ IsLetter(Ch(s, i + 1)) THEN parse_starttag(s, i, end)
  ELSE IF s[i] = "<" /\ Ch(s, i + 1) = "/" THEN parse_endtag(s, i, end)
  ELSE IF s[i] = "&" /\ Ch(s, i + 1) = "#"
    THEN CharRefAt(s, i,
                   IF Ch(s, i + 2) \in {"x", "X"}
                     THEN Find(s, i + 3, LAMBDA c : ~IsHexDigit(c))
                     ELSE Find(s, i + 2, LAMBDA c : ~IsDigit(c)),
                   Ch(s, i + 2) \in {"x", "X"})
  ELSE IF s[i] = "&" /\ IsLetter(Ch(s, i + 1))
    THEN EntityRefTo(s, i, Find(s, i + 2, LAMBDA c : ~IsEntityNameChar(c)), end)
  ELSE IF i < Len(s) THEN DataTo(s, i, i + 1)
  ELSE Break(i)

\* ---- bs4: the tree builder ----
\* HTMLTreeBuilder.empty_element_tags: the void elements of HTML
EmptyElementTags ==
  {"area", "base", "br", "col", "embed", "hr", "img", "input", "keygen",
   "link", "menuitem", "meta", "param", "source", "track", "wbr",
   "basefont", "bgsound", "command", "frame", "image", "isindex",
   "nextid", "spacer"}

\* HTMLTreeBuilder.DEFAULT_STRING_CONTAINERS: the elements whose strings
\* are of a class of their own
StringContainers == {"rt", "rp", "style", "script", "template"}

\* the classes of string: NavigableString, and one for each container
StringKinds == {"#text", "#rt", "#rp", "#style", "#script", "#template"}

\* HTMLTreeBuilder.DEFAULT_PRESERVE_WHITESPACE_TAGS
PreserveWhitespaceTags == {"pre", "textarea"}

\* HTMLTreeBuilder.DEFAULT_CDATA_LIST_ATTRIBUTES: the attributes whose
\* value is a list of words
IsCdataList(tag, attr) ==
  \/ attr \in {"class", "accesskey", "dropzone"}
  \/ tag \in {"a", "link"} /\ attr \in {"rel", "rev"}
  \/ tag \in {"td", "th"} /\ attr = "headers"
  \/ tag = "form" /\ attr = "accept-charset"
  \/ tag = "object" /\ attr = "archive"
  \/ tag = "area" /\ attr = "rel"
  \/ tag = "icon" /\ attr = "sizes"
  \/ tag = "iframe" /\ attr = "sandbox"
  \/ tag = "output" /\ attr = "for"

\* a string of the tree: its class and its characters
TextNode(kind, s) == [tag |-> kind, name |-> <<>>, attrs |-> <<>>, text |-> s, kids |-> <<>>]

\* a Tag: the name (as a string and in characters), the attributes as
\* <<name, value>> in the order of the dict, the children
ElemNode(name, attrs, kids) ==
  [tag |-> TokenText(name), name |-> name, attrs |-> attrs, text |-> <<>>, kids |-> kids]

\* a NavigableString of any class
IsText(n) == n.tag \in StringKinds

\* the BeautifulSoup object over its children
Document(kids) ==
  [tag |-> "[document]", name |-> <<>>, attrs |-> <<>>, text |-> <<>>, kids |-> kids]

\* attr_dict[key] = value: a name seen again keeps its place and takes
\* the later value
SetAttr(dict, kv) ==
  IF \E i \in DOMAIN dict : dict[i][1] = kv[1]
    THEN [i \in DOMAIN dict |-> IF dict[i][1] = kv[1] THEN kv ELSE dict[i]]
    ELSE Append(dict, kv)

RECURSIVE AttrDict(_, _)
AttrDict(attrs, dict) ==
  IF attrs = <<>> THEN dict ELSE AttrDict(Tail(attrs), SetAttr(dict, Head(attrs)))

\* _replace_cdata_list_attribute_values: the value of a list attribute
\* is split into its words (they are joined with " " when written)
TagAttrs(tag, dict) ==
  [i \in DOMAIN dict |->
     IF IsCdataList(tag, TokenText(dict[i][1]))
       THEN <<dict[i][1], JoinWith(<<" ">>, SplitWords(dict[i][2]))>>
       ELSE dict[i]]

\* attrs.get(name, ""), the name given in characters
AttrGet(attrs, name) ==
  IF \E i \in DOMAIN attrs : attrs[i][1] = name THEN Row(attrs, name)[2] ELSE <<>>

\* tag.get("c", "")
AttrC(tag) == AttrGet(tag.attrs, <<"c">>)

\* the tag stack of the tree builder: the document first, then every
\* element that is still open, each with the children built so far
OpenTag(name, attrs) ==
  [tag |-> TokenText(name), name |-> name, attrs |-> attrs, kids |-> <<>>]

\* object_was_parsed: the node becomes the last child of the innermost
\* open element
AddChild(stack, node) == [stack EXCEPT ![Len(stack)].kids = Append(@, node)]

\* popTag: the innermost open element is complete
PopTag(stack) ==
  AddChild(SubSeq(stack, 1, Len(stack) - 1),
           ElemNode(stack[Len(stack)].name, stack[Len(stack)].attrs,
                    stack[Len(stack)].kids))

RECURSIVE PopDownTo(_, _)
\* the open elements from position k on are closed, innermost first
PopDownTo(stack, k) ==
  IF Len(stack) < k THEN stack ELSE PopDownTo(PopTag(stack), k)

\* _popToTag(name): the most recently opened element of that name is
\* closed with everything still open inside it; an end tag that names no
\* open element closes nothing
_popToTag(stack, name) ==
  IF \E k \in 2..Len(stack) : stack[k].name = name
    THEN PopDownTo(stack, MaxOr({ k \in 2..Len(stack) : stack[k].name = name }, 0))
    ELSE stack

\* string_container(): the class of the innermost open container
string_container(stack) ==
  IF \E k \in 2..Len(stack) : stack[k].tag \in StringContainers
    THEN "#" \o stack[MaxOr({ k \in 2..Len(stack) : stack[k].tag \in StringContainers }, 0)].tag
    ELSE "#text"

\* the characters of the string endData makes of the data collected: a
\* run that is all ASCII whitespace becomes a single "\n" or " ", unless
\* a pre or textarea is open
EndData(run, stack) ==
  IF /\ \A i \in DOMAIN run : IsAsciiSpace(run[i])
     /\ \A k \in DOMAIN stack : stack[k].tag \notin PreserveWhitespaceTags
    THEN IF "\n" \in Range(run) THEN <<"\n">> ELSE <<" ">>
    ELSE run

\* BeautifulSoup.endData on the state of the parse, which holds the
\* place in the input (pos), whether close() was called (end), the tag
\* stack, the character data collected since the last tag (current_data)
\* and already_closed_empty_element (closed)
endData(st) ==
  IF st.data = <<>> THEN st
  ELSE [st EXCEPT !.stack = AddChild(@, TextNode(string_container(st.stack),
                                                  EndData(st.data, st.stack))),
                  !.data = <<>>]

\* BeautifulSoup.handle_starttag: the data before the tag becomes a
\* string, the tag is pushed
pushTag(st, name, attrs) ==
  [endData(st) EXCEPT !.stack =
     Append(@, OpenTag(name, TagAttrs(TokenText(name), AttrDict(attrs, <<>>))))]

\* BeautifulSoup.handle_endtag
soup_endtag(st, name) == [endData(st) EXCEPT !.stack = _popToTag(@, name)]

\* BeautifulSoupHTMLParser.handle_starttag: a void element is closed at
\* once and its name noted in already_closed_empty_element
handle_starttag(st, name, attrs) ==
  IF TokenText(name) \in EmptyElementTags
    THEN [soup_endtag(pushTag(st, name, attrs), name) EXCEPT !.closed = Append(@, name)]
    ELSE pushTag(st, name, attrs)

\* list.remove(x): the list without the first x
RemoveFirst(seq, x) ==
  SubSeq(seq, 1, MinOf({ k \in DOMAIN seq : seq[k] = x }) - 1)
  \o SubSeq(seq, MinOf({ k \in DOMAIN seq : seq[k] = x }) + 1, Len(seq))

\* BeautifulSoupHTMLParser.handle_endtag: the end tag of a void element
\* that was closed already only takes its name off the list (the data
\* collected goes on through it)
handle_endtag(st, name) ==
  IF \E k \in DOMAIN st.closed : st.closed[k] = name
    THEN [st EXCEPT !.closed = RemoveFirst(@, name)]
    ELSE soup_endtag(st, name)

\* BeautifulSoupHTMLParser.handle_startendtag: the tag is pushed, void or
\* not, and handle_endtag called for its name
handle_startendtag(st, name, attrs) ==
  handle_endtag(pushTag(st, name, attrs), name)

\* the handler the event names
Handle(st, ev) ==
  IF ev.kind = "data" THEN [st EXCEPT !.data = @ \o ev.data]
  ELSE IF ev.kind = "starttag" THEN handle_starttag(st, ev.name, ev.attrs)
  ELSE IF ev.kind = "startendtag" THEN handle_startendtag(st, ev.name, ev.attrs)
  ELSE IF ev.kind = "endtag" THEN handle_endtag(st, ev.name)
  ELSE st

\* where the parser goes on: behind what it read; when the loop is left
\* in the pass of feed(), close() takes it up at the same place; when it
\* is left in the pass of close(), the rest of the input is data
Advance(s, st, ev) ==
  IF ~ev.brk THEN [st EXCEPT !.pos = ev.next]
  ELSE IF ~st.end THEN [st EXCEPT !.pos = ev.next, !.end = TRUE]
  ELSE [st EXCEPT !.pos = Len(s) + 1, !.data = @ \o SubSeq(s, ev.next, Len(s))]

Feed(s, st, ev) == Advance(s, Handle(st, ev), ev)

\* one turn of the loop, once the input is not used up
ParseStep(s, st) ==
  IF st.pos > Len(s) THEN st ELSE Feed(s, st, EventAt(s, st.pos, st.end))

RECURSIVE goahead(_, _, _, _)

\* the turns lo..hi taken on the state the turns before them left (the
\* place is always positive, so the test is true: it makes the evaluation
\* finish the first half before it enters the second)
GoOn(st, s, lo, hi) == IF st.pos > 0 THEN goahead(s, lo, hi, st) ELSE st

\* the state after the turns lo..hi of the loop (the range is halved, so
\* that the evaluation nests no deeper than the logarithm of their number)
goahead(s, lo, hi, st) ==
  IF lo > hi THEN st
  ELSE IF lo = hi THEN ParseStep(s, st)
  ELSE GoOn(goahead(s, lo, (lo + hi) \div 2, st), s, (lo + hi) \div 2 + 1, hi)

\* feed() and close() on the characters s: every turn but the two at
\* which a pass is left reads at least one character
Fed(s) ==
  goahead(s, 1, Len(s) + 2,
          [pos |-> 1, end |-> FALSE,
           stack |-> <<[tag |-> "[document]", name |-> <<>>, attrs |-> <<>>,
                        kids |-> <<>>]>>,
           data |-> <<>>, closed |-> <<>>])

\* the children of the document once the input is used up, the last data
\* made a string and every element still open closed
BuiltDocument(st) == PopDownTo(endData(st).stack, 2)[1].kids

\* BeautifulSoup(html, "html.parser"): the children of the document
BeautifulSoup(html) == BuiltDocument(Fed(Chars(html)))

\* ---- bs4: Tag.decode ----
\* the name a sorts before the name b (sorted() on the attribute names):
\* the first character that differs (at d) decides, else the length
NameBefore(a, b, d) ==
  IF d = 0 THEN Len(a) < Len(b) ELSE Ord(a[d]) < Ord(b[d])

SortsBefore(a, b) ==
  NameBefore(a, b, MinOr({ k \in 1..Len(a) : k <= Len(b) /\ a[k] # b[k] }, 0))

\* Formatter.attributes: the attributes sorted by name
SortedAttrs(attrs) ==
  [r \in DOMAIN attrs |->
     attrs[CHOOSE k \in DOMAIN attrs :
             Cardinality({ j \in DOMAIN attrs :
                             \/ SortsBefore(attrs[j][1], attrs[k][1])
                             \/ /\ ~SortsBefore(attrs[k][1], attrs[j][1])
                                /\ j < k }) = r - 1]]

\* Formatter.quoted_attribute_value on the substituted value: double
\* quotes, single quotes when the value holds a double quote, and
\* &quot; for every double quote when it holds both
QuotedValue(v) ==
  IF "\"" \notin Range(v) THEN <<"\"">> \o v \o <<"\"">>
  ELSE IF "'" \notin Range(v) THEN <<"'">> \o v \o <<"'">>
  ELSE <<"\"">>
       \o Flatten([i \in DOMAIN v |->
                     IF v[i] = "\"" THEN <<"&", "q", "u", "o", "t", ";">> ELSE <<v[i]>>],
                  1, Len(v))
       \o <<"\"">>

\* key="value" for each attribute, a blank before each
AttrText(attrs) ==
  Flatten([i \in DOMAIN attrs |->
             <<" ">> \o attrs[i][1] \o <<"=">>
             \o QuotedValue(Chars(substitute_xml(attrs[i][2])))],
          1, Len(attrs))

\* the characters of the start tag as Tag.decode writes it
StartTagText(n) ==
  <<"<">> \o n.name \o AttrText(SortedAttrs(n.attrs))
  \o (IF n.tag \in EmptyElementTags /\ n.kids = <<>> THEN <<"/", ">">> ELSE <<">">>)

\* the characters of the end tag
EndTagText(n) == <<"<", "/">> \o n.name \o <<">">>

\* the text of a tag as tokens: the token of the table (column col) that
\* abbreviates it, else its characters
TagTokens(text, col) ==
  IF \E i \in DOMAIN TagDefs : TagDefs[i][col + 3] = text
    THEN <<TagDefs[MinOf({ i \in DOMAIN TagDefs : TagDefs[i][col + 3] = text })][col]>>
    ELSE text

RECURSIVE DecodeNodes(_)
\* Tag.decode_contents() / soup.decode(): serialize a sequence of nodes;
\* a string is written with &, < and > substituted, an element as its
\* start tag, its contents and its end tag, a void element without
\* children as "<name/>"
DecodeNodes(nodes) ==
  IF nodes = <<>> THEN <<>>
  ELSE (IF IsText(Head(nodes)) THEN substitute_xml(Head(nodes).text)
        ELSE IF Head(nodes).tag \in EmptyElementTags /\ Head(nodes).kids = <<>>
          THEN TagTokens(StartTagText(Head(nodes)), 1)
        ELSE TagTokens(StartTagText(Head(nodes)), 1)
             \o DecodeNodes(Head(nodes).kids)
             \o TagTokens(EndTagText(Head(nodes)), 2))
       \o DecodeNodes(Tail(nodes))

\* Tag.decode() / str(tag)
DecodeNode(n) == DecodeNodes(<<n>>)

\* ---- bs4: Tag.get_text ----
RECURSIVE _all_strings(_, _)
\* Tag._all_strings: the strings under the nodes whose class is among the
\* types, in document order
_all_strings(nodes, types) ==
  IF nodes = <<>> THEN <<>>
  ELSE (IF IsText(Head(nodes))
          THEN IF Head(nodes).tag \in types THEN <<Head(nodes).text>> ELSE <<>>
          ELSE _all_strings(Head(nodes).kids, types))
       \o _all_strings(Tail(nodes), types)

\* find_all(string=True): every string under the nodes, of any class
AllStrings(nodes) == _all_strings(nodes, StringKinds)

\* Tag.interesting_string_types: the class of its own for a container,
\* NavigableString for every other tag
interesting_string_types(tag) ==
  IF tag.tag \in StringContainers THEN {"#" \o tag.tag} ELSE {"#text"}

\* the strings stripped, the empty ones left out
StrippedNonEmpty(strs) ==
  SelectSeq([i \in DOMAIN strs |-> Strip(strs[i])], LAMBDA s : s # <<>>)

\* tag.get_text(" ", strip=True)
GetTextSep(tag) ==
  JoinWith(<<" ">>,
           StrippedNonEmpty(_all_strings(tag.kids, interesting_string_types(tag))))

\* tag.get_text(strip=True): the stripped strings joined with no separator
GetTextStrip(tag) ==
  Concat(StrippedNonEmpty(_all_strings(tag.kids, interesting_string_types(tag))))

\* ------------------------------------------------------------------------
\* Entry model (parse.py dataclasses) and the renderer
\* ------------------------------------------------------------------------
\* Python's None for an optional string; no character string equals it
None == <<"None">>

\* str(value): None prints as the four characters "None"
str(v) == IF v = None THEN <<"N","o","n","e">> ELSE v

\* truthiness of an optional string
Truthy(v) == v # None /\ v # <<>>

Sense(text, marker, html) == [text |-> text, marker |-> marker, html |-> html]

PartOfSpeechBlock(label, html, senses) ==
  [label |-> label, html |-> html, senses |-> senses]

SectionEntry(text, label, html) == [text |-> text, label |-> label, html |-> html]

\* sections is the insertion-ordered dict: a sequence of [key, entries]
ParsedEntry(headword, pos_blocks, sections, raw_html) ==
  [headword |-> headword, pos_blocks |-> pos_blocks,
   sections |-> sections, raw_html |-> raw_html]

SectionKeys(sections) == { sections[i].key : i \in DOMAIN sections }

SectionIndex(sections, key) == CHOOSE i \in DOMAIN sections : sections[i].key = key

\* sections.get(key) or []
SectionGet(sections, key) ==
  IF key \in SectionKeys(sections)
    THEN sections[SectionIndex(sections, key)].entries
    ELSE <<>>

\* sections.setdefault(key, [])
SectionSetDefault(sections, key) ==
  IF key \in SectionKeys(sections) THEN sections
  ELSE Append(sections, [key |-> key, entries |-> <<>>])

\* sections.setdefault(key, []).append(item)
SectionAppend(sections, key, item) ==
  LET s == SectionSetDefault(sections, key) IN
  [s EXCEPT ![SectionIndex(s, key)].entries = Append(@, item)]

SECTION_DISPLAY_NAMES ==
  [headnote |-> <<"H","e","a","d","n","o","t","e">>,
   phrases |-> <<"P","h","r","a","s","e","s">>,
   derivatives |-> <<"D","e","r","i","v","a","t","i","v","e","s">>,
   origin |-> <<"O","r","i","g","i","n">>,
   usage |-> <<"U","s","a","g","e">>,
   grammar |-> <<"G","r","a","m","m","a","r">>,
   verb_forms |-> <<"V","e","r","b"," ","f","o","r","m","s">>,
   thesaurus |-> <<"T","h","e","s","a","u","r","u","s">>,
   extra_examples |-> <<"E","x","t","r","a"," ","e","x","a","m","p","l","e","s">>,
   more_about |-> <<"M","o","r","e"," ","a","b","o","u","t">>,
   notes |-> <<"N","o","t","e","s">>]

\* SECTION_DISPLAY_NAMES.get(section_key, section_key.replace("_", " ").title())
_get_display_name(section_key) ==
  IF section_key \in DOMAIN SECTION_DISPLAY_NAMES
    THEN SECTION_DISPLAY_NAMES[section_key]
    ELSE Title(ReplaceChar(KeyChars(section_key), "_", " "))

_html_or_text(html_value, text_value) ==
  IF Truthy(html_value) THEN html_value ELSE escape(text_value)

HeadwordTags ==
  <<"<h1 class=entry-headword>", "<h2 class=entry-headword>",
    "<h3 class=entry-headword>", "<h4 class=entry-headword>",
    "<h5 class=entry-headword>", "<h6 class=entry-headword>">>

PosLabelTags ==
  <<"<h1>", "<h2 class=pos-label>", "<h3 class=pos-label>",
    "<h4 class=pos-label>", "<h5 class=pos-label>", "<h6 class=pos-label>">>

SectionTitleTags == <<"<h1>", "<h2>", "<h3>", "<h4>", "<h5>", "<h6>">>

Min(a, b) == IF a < b THEN a ELSE b

Max(a, b) == IF a > b THEN a ELSE b

\* heading_level = min(6, max(1, heading_level))
ClampHeading(heading_level) == Min(6, Max(1, heading_level))

\* faulty variant: the sub-headings share the level of the headword
SubseqLevel_same(heading_level) == ClampHeading(heading_level)

\* the level of subseq_tag
SubseqLevel(heading_level) == Min(6, ClampHeading(heading_level) + 1)

\* one <li> of a section block
SectionItemPart(item) ==
  LET label0 == IF item.label # None THEN Strip(str(item.label)) ELSE <<>>
      label == IF label0 # <<>>
                    /\ StripChars(Lower(label0), {".", ":"}) = <<"n","o","n","e">>
                 THEN <<>> ELSE label0
      label_html == IF label # <<>>
                      THEN <<"<strong class=section-label>">> \o escape(label)
                           \o <<"</strong>", " ">>
                      ELSE <<>>
      body_html == _html_or_text(item.html, item.text)
  IN <<"<li>">> \o label_html \o body_html \o <<"</li>">>

\* the parts _append_section_block adds for one section
_append_section_block(section_key, entries, sublevel) ==
  IF entries = <<>> THEN <<>>
  ELSE LET ht == SectionTitleTags[sublevel] IN
       << <<SectionTag(section_key)>>,
          <<ht>> \o escape(_get_display_name(section_key)) \o <<EndTagOf(ht)>>,
          <<"<ul>">> >>
       \o [i \in DOMAIN entries |-> SectionItemPart(entries[i])]
       \o << <<"</ul>", "</section>">> >>

\* one <li> of a sense list
SensePart(sense) ==
  LET text_html == _html_or_text(sense.html, sense.text)
      marker == Strip(str(sense.marker))
      marker_html == IF marker # <<>>
                       THEN <<"<span class=sense-marker>">> \o escape(marker)
                            \o <<".", "</span>", " ">>
                       ELSE <<>>
  IN <<"<li>">> \o marker_html \o text_html \o <<"</li>">>

\* the parts added for one PartOfSpeechBlock
PosBlockParts(block, sublevel) ==
  LET label == escape(Strip(str(block.label)))
      ht == PosLabelTags[sublevel]
  IN << <<"<section class=pos-block>">> >>
     \o (IF label # <<>> THEN << <<ht>> \o label \o <<EndTagOf(ht)>> >> ELSE <<>>)
     \o (IF block.senses # <<>>
           THEN << <<"<ol class=sense-list>">> >>
                \o [i \in DOMAIN block.senses |-> SensePart(block.senses[i])]
                \o << <<"</ol>">> >>
         ELSE IF Truthy(block.html)
           THEN << <<"<p>">> \o block.html \o <<"</p>">> >>
         ELSE <<>>)
     \o << <<"</section>">> >>

\* faulty variant: the headnote is not taken out of the map
OtherSections_all(sections) == sections

\* a map once pop("headnote", None) is done on it
OtherSections(sections) == SelectSeq(sections, LAMBDA kv : kv.key # "headnote")

\* The sections maps a call of render_entry_html can reach: "own" is the
\* map of the entry handed in, "asdict" the map of the copy to_dict() makes
\* of a ParsedEntry, "local" the map the call makes for itself.  A call
\* holds the maps and the name (at) of the one its variable refers to.
Maps(sections) == [own |-> sections, asdict |-> <<>>, local |-> <<>>]

\* entry_dict = _entry_mapping(entry): a ParsedEntry is copied by asdict,
\* a mapping is returned as it is
_entry_mapping(kind, maps) ==
  IF kind = "ParsedEntry"
    THEN [maps |-> [maps EXCEPT !.asdict = maps.own], at |-> "asdict"]
    ELSE [maps |-> maps, at |-> "own"]

\* faulty variant: sections is the map of entry_dict itself
SectionsAfter_alias(m) == m

\* sections = dict(entry_dict.get("sections") or {}): a new map that holds
\* the items of the map of entry_dict
SectionsAfter(m) == [maps |-> [m.maps EXCEPT !.local = m.maps[m.at]], at |-> "local"]

\* headnote_entries = sections.pop("headnote", None): the map that
\* sections refers to loses the key
PopHeadnote(m) ==
  [maps |-> [m.maps EXCEPT ![m.at] = OtherSections(@)], at |-> m.at,
   headnote_entries |-> SectionGet(m.maps[m.at], "headnote")]

RECURSIVE FlattenParts(_)
FlattenParts(pp) == IF pp = <<>> THEN <<>> ELSE Head(pp) \o FlattenParts(Tail(pp))

\* the list `parts` that render_entry_html builds, m the maps after the pop
RenderParts(entry, heading_level, m) ==
  LET level == ClampHeading(heading_level)
      sublevel == SubseqLevel(heading_level)
      hw0 == Strip(str(entry.headword))
      headword == escape(IF hw0 # <<>> THEN hw0 ELSE <<"E","n","t","r","y">>)
      h_tag == HeadwordTags[level]
      headnote_entries == m.headnote_entries
      sections == m.maps[m.at]
  IN << <<"<article class=concise-oxford-entry>">>,
        <<h_tag>> \o headword \o <<EndTagOf(h_tag)>> >>
     \o _append_section_block("headnote", headnote_entries, sublevel)
     \o FlattenParts([i \in DOMAIN entry.pos_blocks |->
                        PosBlockParts(entry.pos_blocks[i], sublevel)])
     \o FlattenParts([i \in DOMAIN sections |->
                        _append_section_block(sections[i].key, sections[i].entries, sublevel)])
     \o << <<"</article>">> >>

\* return "\n".join(parts): the string, and the maps as the call leaves them
Rendering(entry, heading_level, m) ==
  [html |-> JoinWith(<<"\n">>, RenderParts(entry, heading_level, m)), maps |-> m.maps]

\* the call render_entry_html(entry, heading_level) on a ParsedEntry or a
\* mapping (kind)
RenderCall(kind, entry, heading_level) ==
  Rendering(entry, heading_level,
            PopHeadnote(SectionsAfter(_entry_mapping(kind, Maps(entry.sections)))))

\* render_entry_html(entry, heading_level) of a ParsedEntry
render_entry_html(entry, heading_level) ==
  RenderCall("ParsedEntry", entry, heading_level).html

\* ------------------------------------------------------------------------
\* Tree navigation and mutation (paths are sequences of child indexes)
\* ------------------------------------------------------------------------
RECURSIVE PathsUnder(_, _, _)
\* the paths of all nodes below `nodes`, in document order
PathsUnder(nodes, prefix, i) ==
  IF i > Len(nodes) THEN <<>>
  ELSE <<prefix \o <<i>>>>
       \o PathsUnder(nodes[i].kids, prefix \o <<i>>, 1)
       \o PathsUnder(nodes, prefix, i + 1)

AllPaths(nodes) == PathsUnder(nodes, <<>>, 1)

RECURSIVE NodeAt(_, _)
NodeAt(nodes, path) ==
  IF Len(path) = 1 THEN nodes[path[1]]
  ELSE NodeAt(nodes[path[1]].kids, Tail(path))

RemoveIndex(seq, i) == SubSeq(seq, 1, i - 1) \o SubSeq(seq, i + 1, Len(seq))

RECURSIVE RemoveAt(_, _)
\* node.extract() / node.decompose(): the tree without the node at path
RemoveAt(nodes, path) ==
  IF Len(path) = 1 THEN RemoveIndex(nodes, path[1])
  ELSE [nodes EXCEPT ![path[1]].kids = RemoveAt(@, Tail(path))]

\* the unicode characters the markup uses structurally
RightArrow == "U+2192"

SenseGlyph == "U+300B"

AngleGlyph == "U+3009"

POS_BULLETS == {"U+25A0", "U+25AA", "U+2022", "U+25B8"}

\* find_all(name): paths of the elements with that tag name, document order
FindAllPaths(nodes, names) ==
  SelectSeq(AllPaths(nodes), LAMBDA p : NodeAt(nodes, p).tag \in names)

\* re.compile(r"^green$", re.I).search(value): the case of the letters is
\* ignored, and "$" also matches in front of a line feed that ends the value
IsGreen(value) ==
  Lower(value) \in {<<"g", "r", "e", "e", "n">>, <<"g", "r", "e", "e", "n", "\n">>}

\* find("c", attrs={"c": re.compile(r"^green$", re.I)}): the tags c whose
\* attribute c matches (a tag without the attribute does not)
FindGreenPaths(nodes) ==
  SelectSeq(AllPaths(nodes),
            LAMBDA p : NodeAt(nodes, p).tag = "c" /\ IsGreen(AttrC(NodeAt(nodes, p))))

\* ------------------------------------------------------------------------
\* parse.py: text helpers
\* ------------------------------------------------------------------------
_strip_pos_bullet(text) ==
  LET t == LStrip(text) IN
  Strip(IF t # <<>> /\ Head(t) \in POS_BULLETS THEN Tail(t) ELSE t)

RECURSIVE CloseIndex(_, _, _)
\* index of the ")" that brings the depth back to 0, or 0 when unbalanced
CloseIndex(s, idx, depth) ==
  IF idx > Len(s) THEN 0
  ELSE IF s[idx] = "(" THEN CloseIndex(s, idx + 1, depth + 1)
  ELSE IF s[idx] = ")"
    THEN IF depth - 1 = 0 THEN idx ELSE CloseIndex(s, idx + 1, depth - 1)
  ELSE CloseIndex(s, idx + 1, depth)

RECURSIVE StripParens(_)
StripParens(remaining) ==
  IF StartsWith(remaining, <<"(">>)
    THEN LET idx == CloseIndex(remaining, 1, 0) IN
         IF idx = 0 THEN Strip(remaining)
         ELSE StripParens(LStrip(SubSeq(remaining, idx + 1, Len(remaining))))
    ELSE Strip(remaining)

_strip_leading_parentheticals(text) == StripParens(LStrip(text))

\* the sequence s without the positions in `drop`
DropIndexes(s, drop) ==
  LET pairs == SelectSeq([i \in DOMAIN s |-> <<i, s[i]>>], LAMBDA p : p[1] \notin drop)
  IN [k \in DOMAIN pairs |-> pairs[k][2]]

\* re.sub(r"\s+([,.;:)\]])", r"\1", text): whitespace whose next
\* non-whitespace character is one of , . ; : ) ] is removed
TidyBefore(s) ==
  LET NextSolid(i) == { j \in (i + 1)..Len(s) :
                          /\ ~IsSpace(s[j])
                          /\ \A k \in (i + 1)..(j - 1) : IsSpace(s[k]) }
  IN DropIndexes(s, { i \in DOMAIN s :
                        /\ IsSpace(s[i])
                        /\ \E j \in NextSolid(i) : s[j] \in {",", ".", ";", ":", ")", "]"} })

\* re.sub(r"([(])\s+", r"\1", text): whitespace whose previous
\* non-whitespace character is ( is removed
TidyAfter(s) ==
  LET PrevSolid(i) == { j \in 1..(i - 1) :
                          /\ ~IsSpace(s[j])
                          /\ \A k \in (j + 1)..(i - 1) : IsSpace(s[k]) }
  IN DropIndexes(s, { i \in DOMAIN s :
                        /\ IsSpace(s[i])
                        /\ \E j \in PrevSolid(i) : s[j] = "(" })

_tidy_punctuation_spacing(text) == Strip(TidyAfter(TidyBefore(text)))

\* tag.decode_contents().strip()
_tag_to_html(tag) == Strip(DecodeNodes(tag.kids))

\* _normalize_ws(tag.get_text(" ", strip=True))
_tag_to_text(tag) == _normalize_ws(GetTextSep(tag))

\* ------------------------------------------------------------------------
\* parse.py: ConciseOxfordParser
\* ------------------------------------------------------------------------
\* "no such tag": the result of a find() that matches nothing
NoTag == [tag |-> "#none", name |-> <<>>, attrs |-> <<>>, text |-> <<>>, kids |-> <<>>]

\* the node at the first of the paths, or NoTag when there is none
FirstAt(nodes, paths) == IF paths = <<>> THEN NoTag ELSE NodeAt(nodes, paths[1])

\* the first node with one of the names below `nodes`, or NoTag
FindIn(nodes, names) == FirstAt(nodes, FindAllPaths(nodes, names))

\* tag.find(name): the first descendant with that name, or NoTag
FindFirst(tag, names) == FindIn(tag.kids, names)

\* BeautifulSoup(markup, "html.parser").<name>: first tag of that name
SoupFirst(markup, name) == FindIn(BeautifulSoup(markup), {name})

\* headword_tag.get_text(strip=True) if headword_tag else fallback_word
HeadwordText(headword_tag, fallback_word) ==
  IF headword_tag # NoTag THEN GetTextStrip(headword_tag) ELSE fallback_word

\* the headword: text of the first <k>, or the word that was looked up
HeadwordOf(root, fallback_word) == HeadwordText(FindFirst(root, {"k"}), fallback_word)

SECTION_HEADER_PATTERNS ==
  << <<"phrases", <<"p","h","r","a","s","e","s">> >>,
     <<"derivatives", <<"d","e","r","i","v","a","t","i","v","e","s">> >>,
     <<"origin", <<"o","r","i","g","i","n">> >>,
     <<"usage", <<"u","s","a","g","e">> >>,
     <<"grammar", <<"g","r","a","m","m","a","r">> >> >>

\* the first pattern ^\s*name\s*$ that matches the text, or "" (None)
FirstPattern(patterns, text) ==
  IF \E i \in DOMAIN patterns : patterns[i][2] = text
    THEN patterns[MinOf({ i \in DOMAIN patterns : patterns[i][2] = text })][1]
    ELSE ""

\* the section a header block names, or "" (None)
_match_section_header(block) ==
  FirstPattern(SECTION_HEADER_PATTERNS, Strip(Lower(_tag_to_text(block))))

_looks_like_pos_header(block) ==
  /\ _strip_pos_bullet(_tag_to_text(block)) # <<>>
  /\ FindGreenPaths(block.kids) # <<>>

\* the nodes without the node at the first of the paths (c_tag.extract())
WithoutFirst(nodes, paths) ==
  IF paths # <<>> THEN RemoveAt(nodes, paths[1]) ELSE nodes

\* the text of the clone once its green <c> tag is taken out
InlineTextOf(clone) ==
  IF clone = NoTag THEN <<>>
  ELSE _tidy_punctuation_spacing(_strip_leading_parentheticals(_strip_pos_bullet(
         _tag_to_text([clone EXCEPT
                         !.kids = WithoutFirst(@, FindGreenPaths(clone.kids))]))))

_inline_sense_text(block) == InlineTextOf(SoupFirst(DecodeNode(block), "blockquote"))

\* the header text with the inline sense text cut from its end
PosLabelCut(text, inline_text) ==
  _tidy_punctuation_spacing(
    IF inline_text # <<>> /\ EndsWith(text, inline_text)
      THEN RStrip(SubSeq(text, 1, Len(text) - Len(inline_text)))
      ELSE text)

_extract_pos_label(block) ==
  PosLabelCut(_strip_pos_bullet(_tag_to_text(block)), _inline_sense_text(block))

RECURSIVE DigitRun(_, _)
\* length of the run of digits that starts at s[i]
DigitRun(s, i) ==
  IF i <= Len(s) /\ IsDigit(s[i]) THEN 1 + DigitRun(s, i + 1) ELSE 0

\* SENSE_MARKER_RE = ^(\d+)\u300b\s*(.*)
SenseMarkerMatches(text) ==
  /\ DigitRun(text, 1) > 0
  /\ Len(text) > DigitRun(text, 1)
  /\ text[DigitRun(text, 1) + 1] = SenseGlyph

\* "no Sense": the None that _build_sense and _build_inline_sense return
NoSense == [text |-> None, marker |-> None, html |-> None]

\* re.sub(rf"^{marker}\u300b\s*", "", html_content)
CutPrefix(html_content, prefix) ==
  IF StartsWith(html_content, prefix)
    THEN LStrip(SubSeq(html_content, Len(prefix) + 1, Len(html_content)))
    ELSE html_content

\* the Sense made from the text and markup of the target
SenseOf(text, html_content) ==
  IF text = <<>> THEN NoSense
  ELSE IF SenseMarkerMatches(text)
    THEN Sense(_tidy_punctuation_spacing(
                 Strip(SubSeq(text, DigitRun(text, 1) + 2, Len(text)))),
               SubSeq(text, 1, DigitRun(text, 1)),
               CutPrefix(html_content,
                         Append(SubSeq(text, 1, DigitRun(text, 1)), SenseGlyph)))
  ELSE Sense(_tidy_punctuation_spacing(text), None, html_content)

SenseOfTarget(target) == SenseOf(_tag_to_text(target), _tag_to_html(target))

\* target = inner if inner else block
TargetOf(block, inner) == IF inner # NoTag THEN inner ELSE block

\* the Sense of a block, or NoSense when the block has no text
_build_sense(block) == SenseOfTarget(TargetOf(block, FindFirst(block, {"blockquote"})))

InlineSense(text) == IF text = <<>> THEN NoSense ELSE Sense(text, None, text)

\* the inline Sense of a part-of-speech header, or NoSense
_build_inline_sense(block) == InlineSense(_inline_sense_text(block))

\* SectionEntry(text=..., label=label, html=...) of what is left of the clone
EntryOf(tag, label) ==
  SectionEntry(_tidy_punctuation_spacing(_tag_to_text(tag)), label, _tag_to_html(tag))

\* parent.decompose() when the parent (at path pp, the clone itself when
\* pp is empty) has no text left: a parent inside the clone is removed,
\* the clone itself is left without children
PruneParent(clone, pp) ==
  IF GetTextStrip(IF pp = <<>> THEN clone ELSE NodeAt(clone.kids, pp)) # <<>>
    THEN clone
  ELSE IF pp = <<>> THEN [clone EXCEPT !.kids = <<>>]
  ELSE [clone EXCEPT !.kids = RemoveAt(@, pp)]

\* the entry of a clone whose first <b> (at path bp) is its label
SplitLabel(clone, bp) ==
  EntryOf(PruneParent([clone EXCEPT !.kids = RemoveAt(@, bp)],
                      SubSeq(bp, 1, Len(bp) - 1)),
          _tag_to_text(NodeAt(clone.kids, bp)))

LabelledEntry(clone, bolds) ==
  IF bolds = <<>> THEN EntryOf(clone, None) ELSE SplitLabel(clone, bolds[1])

SectionEntryOf(block, clone) ==
  IF clone = NoTag
    THEN SectionEntry(_tag_to_text(block), None, _tag_to_html(block))
    ELSE LabelledEntry(clone, FindAllPaths(clone.kids, {"b"}))

_build_section_entry(block) ==
  SectionEntryOf(block, SoupFirst(DecodeNode(block), "blockquote"))

\* pos_blocks with the sense appended to the current (last) block
AppendSense(pos_blocks, sense) ==
  [pos_blocks EXCEPT ![Len(pos_blocks)].senses = Append(@, sense)]

\* current_block.senses.append(inline) when there is an inline sense
AppendIfSense(pos_blocks, sense) ==
  IF sense # NoSense THEN AppendSense(pos_blocks, sense) ELSE pos_blocks

\* the blocks once current_block is not None
WithCurrentBlock(pos_blocks) ==
  IF pos_blocks = <<>>
    THEN <<PartOfSpeechBlock(<<"g","e","n","e","r","a","l">>, <<>>, <<>>)>>
    ELSE pos_blocks

\* the loop state after a section header
EnterSection(st, section) ==
  [entry |-> [st.entry EXCEPT !.sections = SectionSetDefault(@, section)],
   current_section |-> section]

\* the loop state after a part-of-speech header
OpenPosBlock(st, blk, inline) ==
  [entry |-> [st.entry EXCEPT !.pos_blocks = AppendIfSense(Append(@, blk), inline)],
   current_section |-> "senses"]

\* the loop state after a block that goes to a section
AddSectionEntry(st, key, item) ==
  [entry |-> [st.entry EXCEPT !.sections = SectionAppend(@, key, item)],
   current_section |-> st.current_section]

\* the loop state after a sense
AddSense(st, sense) ==
  [entry |-> [st.entry EXCEPT !.pos_blocks = AppendSense(WithCurrentBlock(@), sense)],
   current_section |-> st.current_section]

\* the end of an iteration in the senses: a sense, or else a note
SenseOrNote(st, block, sense) ==
  IF sense # NoSense THEN AddSense(st, sense)
  ELSE AddSectionEntry(st, "notes", _build_section_entry(block))

\* an iteration whose block is not a section header
ConciseBody(st, block) ==
  IF st.current_section = "senses" /\ _looks_like_pos_header(block)
    THEN OpenPosBlock(st,
                      PartOfSpeechBlock(_extract_pos_label(block), _tag_to_html(block), <<>>),
                      _build_inline_sense(block))
  ELSE IF st.current_section # "senses"
    THEN AddSectionEntry(st, st.current_section, _build_section_entry(block))
  ELSE SenseOrNote(st, block, _build_sense(block))

\* an iteration whose block has text
ConciseHeader(st, block, section) ==
  IF section # "" THEN EnterSection(st, section) ELSE ConciseBody(st, block)

\* one iteration of the loop over the top-level blockquotes;
\* current_block is None exactly while pos_blocks is empty
ConciseStep(st, block) ==
  IF _tag_to_text(block) = <<>> THEN st
  ELSE ConciseHeader(st, block, _match_section_header(block))

RECURSIVE ConciseLoop(_, _)
ConciseLoop(st, blocks) ==
  IF blocks = <<>> THEN st
  ELSE ConciseLoop(ConciseStep(st, Head(blocks)), Tail(blocks))

\* the outcome of a parse: an entry, or the exception that was raised
Parsed(entry) == [exc |-> "", entry |-> entry]

RaisedParse(exc) == [exc |-> exc, entry |-> ParsedEntry(<<>>, <<>>, <<>>, <<>>)]

\* the loop of _parse_html over root.find_all("blockquote", recursive=False)
ConciseEntry(root, fallback_word, raw_html) ==
  IF root = NoTag THEN RaisedParse("ValueError")
  ELSE Parsed(ConciseLoop(
         [entry |-> ParsedEntry(HeadwordOf(root, fallback_word), <<>>, <<>>, raw_html),
          current_section |-> "senses"],
         SelectSeq(root.kids, LAMBDA n : n.tag = "blockquote")).entry)

\* ConciseOxfordParser._parse_html
_parse_html(fallback_word, raw_html) ==
  ConciseEntry(SoupFirst(<<"<entry>">> \o raw_html \o <<"</entry>">>, "entry"),
               fallback_word, raw_html)

\* ------------------------------------------------------------------------
\* parse_oald.py: OxfordAdvancedLearnersParser
\* ------------------------------------------------------------------------
SECTION_KEYWORDS ==
  << <<<<"w","o","r","d"," ","o","r","i","g","i","n">>, "origin">>,
     <<<<"v","e","r","b"," ","f","o","r","m","s">>, "verb_forms">>,
     <<<<"t","h","e","s","a","u","r","u","s">>, "thesaurus">>,
     <<<<"e","x","t","r","a"," ","e","x","a","m","p","l","e","s">>, "extra_examples">>,
     <<<<"m","o","r","e"," ","a","b","o","u","t">>, "more_about">> >>

SECTION_ALWAYS_COLLECT == {"thesaurus"}

\* MARKER_RE = ^(\d+)\.?$  ($ also matches before a final newline)
MarkerMatches(s) ==
  /\ DigitRun(s, 1) > 0
  /\ SubSeq(s, DigitRun(s, 1) + 1, Len(s)) \in {<<>>, <<".">>, <<"\n">>, <<".", "\n">>}

RECURSIVE TagString(_)
\* Tag.string: the single string below a tag, or None
TagString(tag) ==
  IF Len(tag.kids) # 1 THEN None
  ELSE IF IsText(tag.kids[1]) THEN tag.kids[1].text
  ELSE TagString(tag.kids[1])

\* string=MARKER_RE: the tag has a single string and the pattern matches it
StringMatchesMarker(string) == string # None /\ MarkerMatches(string)

\* find_all("b", string=MARKER_RE) below a sequence of nodes
MarkerTagPaths(nodes) ==
  SelectSeq(AllPaths(nodes),
            LAMBDA p : /\ NodeAt(nodes, p).tag = "b"
                       /\ StringMatchesMarker(TagString(NodeAt(nodes, p))))

\* tag.get("c", "").lower() == "orange"
_is_pos_label(tag) == Lower(AttrC(tag)) = <<"o", "r", "a", "n", "g", "e">>

\* index of the first keyword the text starts with, or 0 (None)
FirstKeyword(keywords, text_lower) ==
  MinOr({ i \in DOMAIN keywords : StartsWith(text_lower, keywords[i][1]) }, 0)

_detect_section(text_lower) == FirstKeyword(SECTION_KEYWORDS, text_lower)

_looks_like_section_label(text_lower, keyword) ==
  RStripChars(text_lower, {":"}) = keyword

_looks_like_sense(block) == MarkerTagPaths(block.kids) # <<>>

\* Sense(text=_tag_text(clone), marker=marker, html=_tag_html(clone))
SenseFrom(tag, marker) == Sense(_tag_to_text(tag), marker, _tag_to_html(tag))

\* marker_match.group(1) of MARKER_RE.match(marker_text.rstrip(".")), or None
MarkerOf(marker_text) ==
  IF MarkerMatches(marker_text)
    THEN SubSeq(marker_text, 1, DigitRun(marker_text, 1))
    ELSE None

\* the sense of a clone whose marker tag is at path mp
SplitMarker(clone, mp) ==
  SenseFrom(PruneParent([clone EXCEPT !.kids = RemoveAt(@, mp)],
                        SubSeq(mp, 1, Len(mp) - 1)),
            MarkerOf(RStripChars(GetTextStrip(NodeAt(clone.kids, mp)), {"."})))

MarkedSense(clone, hits) ==
  IF hits = <<>> THEN SenseFrom(clone, None) ELSE SplitMarker(clone, hits[1])

OaldSenseOf(clone) == MarkedSense(clone, MarkerTagPaths(clone.kids))

\* OxfordAdvancedLearnersParser._build_sense
oald_build_sense(block) == OaldSenseOf(SoupFirst(DecodeNode(block), "blockquote"))

\* sense.html = (sense.html or "") + <div class="sense-note">html</div>
AppendNote(sense, html) ==
  IF html = <<>> THEN sense
  ELSE [sense EXCEPT !.html =
          (IF Truthy(sense.html) THEN sense.html ELSE <<>>)
          \o <<"<div class=sense-note>">> \o html \o <<"</div>">>]

_append_to_sense(sense, block) == AppendNote(sense, _tag_to_html(block))

AppendEntry(sections, key, block, html) ==
  IF html = <<>> THEN sections
  ELSE SectionAppend(sections, key, SectionEntry(_tag_to_text(block), None, html))

\* entry.sections after _append_section(entry, key, block)
_append_section(sections, key, block) ==
  AppendEntry(sections, key, block, _tag_to_html(block))

FlushHtml(sections, html) ==
  IF html = <<>> THEN sections
  ELSE SectionAppend(sections, "headnote",
         SectionEntry(_tag_to_text(Document(BeautifulSoup(html))), None, html))

\* entry.sections after _flush_headnote(entry, fragments)
_flush_headnote(sections, fragments) ==
  IF fragments = <<>> THEN sections ELSE FlushHtml(sections, Strip(Concat(fragments)))

\* the loop state after the headnote is flushed at the first sense
FlushBefore(st) ==
  IF st.before_first_sense
    THEN [st EXCEPT !.sections = _flush_headnote(@, st.headnote_fragments),
                    !.headnote_fragments = <<>>,
                    !.before_first_sense = FALSE]
    ELSE st

\* the iteration of an orange <c> that keeps last_sense
OaldPosLabel_keeps_sense(st, child) ==
  [st EXCEPT !.active_section = "",
             !.pos_blocks = Append(@, PartOfSpeechBlock(
                                        _normalize_ws(GetTextSep(child)),
                                        DecodeNode(child), <<>>)),
             !.has_block = TRUE]

\* the iteration of an orange <c>: a new part-of-speech block
OaldPosLabel(st, child) ==
  [st EXCEPT !.active_section = "",
             !.pos_blocks = Append(@, PartOfSpeechBlock(
                                        _normalize_ws(GetTextSep(child)),
                                        DecodeNode(child), <<>>)),
             !.has_block = TRUE,
             !.has_last_sense = FALSE]

\* the blocks once current_block is not None
OaldCurrentBlock(st) ==
  IF st.has_block THEN st.pos_blocks
  ELSE Append(st.pos_blocks, PartOfSpeechBlock(<<"e","n","t","r","y">>, <<>>, <<>>))

\* the loop state and the section a blockquote is appended to
OaldCollect(st, key, child) ==
  [st EXCEPT !.sections = _append_section(@, key, child)]

\* a blockquote the section keywords do not match
OaldPlainBlock(st, child, is_sense) ==
  IF st.pending_section # ""
    THEN [OaldCollect(st, st.pending_section, child) EXCEPT !.pending_section = ""]
  ELSE IF st.active_section # ""
          /\ (st.active_section \in SECTION_ALWAYS_COLLECT \/ ~is_sense)
    THEN OaldCollect(st, st.active_section, child)
  ELSE IF is_sense
    THEN [st EXCEPT !.active_section = "",
                    !.pos_blocks = AppendSense(OaldCurrentBlock(st), oald_build_sense(child)),
                    !.has_block = TRUE,
                    !.has_last_sense = TRUE]
  ELSE IF st.has_last_sense
    THEN [st EXCEPT !.pos_blocks[Len(st.pos_blocks)]
                      .senses[Len(st.pos_blocks[Len(st.pos_blocks)].senses)] =
                        _append_to_sense(@, child)]
  ELSE OaldCollect(st, "notes", child)

\* a blockquote that starts with the keyword of a section
OaldSectionBlock(st, child, text_lower, keyword, section_key) ==
  IF _looks_like_section_label(text_lower, keyword)
    THEN [st EXCEPT !.active_section = section_key, !.pending_section = section_key]
    ELSE [OaldCollect(st, section_key, child) EXCEPT !.active_section = section_key,
                                                      !.pending_section = ""]

OaldMatched(st, child, text_lower, m) ==
  IF m # 0
    THEN OaldSectionBlock(st, child, text_lower, SECTION_KEYWORDS[m][1], SECTION_KEYWORDS[m][2])
    ELSE OaldPlainBlock(st, child, _looks_like_sense(child))

\* the iteration of a blockquote, the headnote already flushed
OaldBlockquote(st, child, text_lower) ==
  OaldMatched(st, child, text_lower, _detect_section(text_lower))

\* one iteration of the loop over root.children; current_block is the last
\* of pos_blocks (has_block), last_sense the last sense of that block
OaldStep(st, child) ==
  IF IsText(child)
    THEN IF st.before_first_sense /\ Strip(child.text) # <<>>
           THEN [st EXCEPT !.headnote_fragments = Append(@, child.text)]
           ELSE st
  ELSE IF child.tag = "k" THEN st
  ELSE IF child.tag = "c" /\ _is_pos_label(child)
    THEN OaldPosLabel(FlushBefore(st), child)
  ELSE IF child.tag = "blockquote"
    THEN OaldBlockquote(FlushBefore(st), child, Lower(_tag_to_text(child)))
  ELSE IF st.before_first_sense
    THEN [st EXCEPT !.headnote_fragments = Append(@, DecodeNode(child))]
  ELSE [OaldCollect(st, "notes", child) EXCEPT !.active_section = ""]

RECURSIVE OaldLoop(_, _)
OaldLoop(st, children) ==
  IF children = <<>> THEN st
  ELSE OaldLoop(OaldStep(st, Head(children)), Tail(children))

\* the entry the loop leaves: the headnote flushed, empty blocks dropped
OaldFinish(st, headword, raw_html) ==
  ParsedEntry(headword,
              SelectSeq(st.pos_blocks, LAMBDA b : b.senses # <<>>),
              _flush_headnote(st.sections, st.headnote_fragments),
              raw_html)

\* the loop of _parse_entry over list(root.children)
OaldEntry(root, fallback_word, raw_html) ==
  IF root = NoTag THEN RaisedParse("ValueError")
  ELSE Parsed(OaldFinish(
         OaldLoop([sections |-> <<>>, pos_blocks |-> <<>>,
                   headnote_fragments |-> <<>>, before_first_sense |-> TRUE,
                   has_block |-> FALSE, has_last_sense |-> FALSE,
                   pending_section |-> "", active_section |-> ""],
                  root.kids),
         HeadwordOf(root, fallback_word), raw_html))

\* OxfordAdvancedLearnersParser._parse_entry
_parse_entry(fallback_word, raw_html) ==
  OaldEntry(SoupFirst(<<"<entry>">> \o raw_html \o <<"</entry>">>, "entry"),
            fallback_word, raw_html)

\* ------------------------------------------------------------------------
\* string literals of dictionary_lookup.py
\* ------------------------------------------------------------------------
SEE_WORD == <<"s", "e", "e">>

ALSO_WORD == <<"a", "l", "s", "o">>

SEE_SP == <<"s", "e", "e", " ">>

SEE_ALSO_SP == <<"s", "e", "e", " ", "a", "l", "s", "o", " ">>

NONE_ARROW == <<"n", "o", "n", "e", ".", " ", RightArrow>>

BRE_WORD == <<"b", "r", "e">>

NAME_WORD == <<"n", "a", "m", "e">>

DOT_WAV == <<".", "w", "a", "v">>

PRONUNCIATION == <<"p", "r", "o", "n", "u", "n", "c", "i", "a", "t", "i", "o", "n">>

\* ------------------------------------------------------------------------
\* dictionary_lookup.py: validity, cross references, sanitization
\* ------------------------------------------------------------------------
\* soup.get_text(" ", strip=True) of an HTML string
PlainText(html) == GetTextSep(Document(BeautifulSoup(html)))

\* faulty variant: the "none. ->" form is not tested
ValidStripped_noarrow(stripped) ==
  IF StartsWith(stripped, SEE_SP) THEN FALSE
  ELSE IF StartsWith(stripped, SEE_ALSO_SP) THEN FALSE
  ELSE IF StartsWith(stripped, <<RightArrow>>) THEN FALSE
  ELSE TRUE

\* the tests on stripped = text.lower().strip()
ValidStripped(stripped) ==
  IF StartsWith(stripped, SEE_SP) THEN FALSE
  ELSE IF StartsWith(stripped, SEE_ALSO_SP) THEN FALSE
  ELSE IF StartsWith(stripped, <<RightArrow>>) THEN FALSE
  ELSE IF StartsWith(stripped, NONE_ARROW) THEN FALSE
  ELSE TRUE

\* the tests on the plain text of the HTML
ValidText(text) == IF text = <<>> THEN FALSE ELSE ValidStripped(Strip(Lower(text)))

_is_valid_definition(html) ==
  IF html = <<>> THEN FALSE ELSE ValidText(PlainText(html))

\* a character of the class [A-Za-z'_-]
IsTargetChar(c) == IsLetter(c) \/ c \in {"'", "_", "-"}

\* the group ([A-Za-z][A-Za-z'_-]*) matched at text[i], or None
TargetAt(text, i) ==
  IF i > Len(text) \/ ~IsLetter(text[i]) THEN None
  ELSE SubSeq(text, i,
              MinOr({ j \in (i + 1)..Len(text) : ~IsTargetChar(text[j]) },
                    Len(text) + 1) - 1)

\* first index at or after i that holds no whitespace (\s* consumed)
SkipSpace(text, i) ==
  MinOr({ j \in i..Len(text) : ~IsSpace(text[j]) }, Len(text) + 1)

\* re.search(r"\u2192\s*([A-Za-z][A-Za-z'_-]*)", text).group(1), or None
ArrowTarget(text) ==
  TargetAt(text,
           SkipSpace(text,
             MinOr({ i \in DOMAIN text :
                       text[i] = RightArrow /\ TargetAt(text, SkipSpace(text, i + 1)) # None },
                   Len(text)) + 1))

\* re.match(r"(?i)\bsee(?:\s+also)?\s+([A-Za-z][A-Za-z'_-]*)", text).group(1),
\* or None: the optional "also" is taken when a target follows it
\* the target behind "also" when the optional group matches at text[a]
AlsoTarget(text, a) ==
  IF /\ Len(text) >= a + 4
     /\ Lower(SubSeq(text, a, a + 3)) = ALSO_WORD
     /\ IsSpace(text[a + 4])
    THEN TargetAt(text, SkipSpace(text, a + 4))
    ELSE None

\* faulty variant: the second alternative is preferred to the first
FirstTarget_second(long, short) == IF short # None THEN short ELSE long

\* the first alternative that yields a target
FirstTarget(long, short) == IF long # None THEN long ELSE short

SeeTargetAt(text, a) == FirstTarget(AlsoTarget(text, a), TargetAt(text, a))

SeeTarget(text) ==
  IF ~(Len(text) >= 4 /\ Lower(SubSeq(text, 1, 3)) = SEE_WORD /\ IsSpace(text[4]))
    THEN None
  ELSE SeeTargetAt(text, SkipSpace(text, 4))

\* the redirect target named by the HTML, or None
\* the arrow form is tried first, then the "see" form on the stripped text
TargetOfText(text) ==
  IF text = <<>> THEN None ELSE FirstTarget(ArrowTarget(text), SeeTarget(Strip(text)))

_extract_cross_reference(html) ==
  IF html = <<>> THEN None ELSE TargetOfText(PlainText(html))

\* re.sub(r"[^a-z]", "", normalized)
LettersOnly(s) == SelectSeq(s, IsLowerLetter)

\* the tests of _should_drop on raw = text.strip() and raw.lower()
DropRaw(raw, normalized) ==
  IF raw = <<>> THEN FALSE
  ELSE \/ LettersOnly(normalized) \in {BRE_WORD, NAME_WORD}
       \/ /\ Len(raw) >= 3
          /\ raw[1] = "[" /\ raw[Len(raw)] = "]"
          /\ \A i \in 2..(Len(raw) - 1) : raw[i] # "]"
       \/ EndsWith(normalized, DOT_WAV)
       \/ Contains(normalized, PRONUNCIATION) /\ Len(SplitWords(raw)) <= 3

DropStripped(raw) == DropRaw(raw, Lower(raw))

_should_drop(text) == DropStripped(Strip(text))

RECURSIVE RemoveTags(_, _)
\* decompose() every tag with one of the names
RemoveTags(nodes, names) ==
  LET kept == SelectSeq(nodes, LAMBDA n : n.tag \notin names) IN
  [i \in DOMAIN kept |->
     IF IsText(kept[i]) THEN kept[i]
     ELSE [kept[i] EXCEPT !.kids = RemoveTags(@, names)]]

\* a node that extract() or decompose() took out of the tree; it keeps
\* its place so that the paths of the other nodes stay valid
Removed == [tag |-> "#removed", name |-> <<>>, attrs |-> <<>>, text |-> <<>>, kids |-> <<>>]

RECURSIVE ReplaceAt(_, _, _)
ReplaceAt(nodes, path, node) ==
  IF Len(path) = 1 THEN [nodes EXCEPT ![path[1]] = node]
  ELSE [nodes EXCEPT ![path[1]].kids = ReplaceAt(@, Tail(path), node)]

RECURSIVE Purge(_)
\* the tree without the removed nodes
Purge(nodes) ==
  LET kept == SelectSeq(nodes, LAMBDA n : n # Removed) IN
  [i \in DOMAIN kept |->
     IF IsText(kept[i]) THEN kept[i] ELSE [kept[i] EXCEPT !.kids = Purge(@)]]

\* the document once the loop has called decompose() on the soup itself
DecomposedSoup ==
  <<[tag |-> "#decomposed", name |-> <<>>, attrs |-> <<>>, text |-> <<>>, kids |-> <<>>]>>

\* the document once the loop has asked for the parent of a string that
\* lies in a decomposed tag: decompose() clears the attributes of every
\* node below the tag, and NavigableString.__getattr__ raises
\* AttributeError for the missing "parent"
NoParentSoup ==
  <<[tag |-> "#AttributeError", name |-> <<>>, attrs |-> <<>>, text |-> <<>>,
     kids |-> <<>>]>>

RECURSIVE InDecomposed(_, _)
\* the node at the path lies below a node that was decomposed
InDecomposed(nodes, path) ==
  IF Len(path) = 1 THEN FALSE
  ELSE nodes[path[1]] = Removed \/ InDecomposed(nodes[path[1]].kids, Tail(path))

RECURSIVE DropEmptyParents(_, _)
\* while parent and not parent.get_text(" ", strip=True): decompose it and
\* go on with its parent; the empty path is the soup itself, whose parent
\* is None.  get_text() reads the strings of the class the parent is
\* interested in, so a parent that only holds the text of an <rt>, <rp>
\* or <template> is decomposed with that text in it
DropEmptyParents(doc, parent) ==
  IF parent = <<>>
    THEN IF GetTextSep(Document(doc)) = <<>> THEN DecomposedSoup ELSE doc
  ELSE IF GetTextSep(NodeAt(doc, parent)) = <<>>
    THEN DropEmptyParents(ReplaceAt(doc, parent, Removed),
                          SubSeq(parent, 1, Len(parent) - 1))
  ELSE doc

RECURSIVE DropTextNodes(_, _)
\* the loop over the text nodes that _should_drop: extract the node, then
\* drop the parents that are left without visible text.  A node of the
\* list that lies in a tag decomposed before its turn (in the soup, when
\* the soup was decomposed) has lost its parent
DropTextNodes(doc, paths) ==
  IF paths = <<>> \/ doc = NoParentSoup THEN doc
  ELSE IF doc = DecomposedSoup \/ InDecomposed(doc, Head(paths)) THEN NoParentSoup
  ELSE DropTextNodes(DropEmptyParents(ReplaceAt(doc, Head(paths), Removed),
                                      SubSeq(Head(paths), 1, Len(Head(paths)) - 1)),
                     Tail(paths))

\* a call that returned the string
Returns(html) == [exc |-> "", html |-> html]

\* a call that raised
Raises(exc) == [exc |-> exc, html |-> <<>>]

\* soup.decode() on a soup that was decomposed.  bs4 leaves the use of a
\* decomposed object undefined, and the builds differ: the attributes of
\* the object are gone, and decode() writes the missing name as
\* "<None></None>" (bs4 up to 4.12.2) or raises TypeError when it joins
\* the pieces of the tag (bs4 4.12.3 and later)
DecomposedDecode == {"<None></None>", "TypeError"}

DecodeDecomposed(decomposed) ==
  IF decomposed = "TypeError" THEN Raises("TypeError")
  ELSE Returns(<<"<None>", "</None>">>)

\* return soup.decode()
DecodeSoup(doc, decomposed) ==
  IF doc = NoParentSoup THEN Raises("AttributeError")
  ELSE IF doc = DecomposedSoup THEN DecodeDecomposed(decomposed)
  ELSE Returns(DecodeNodes(Purge(doc)))

\* the soup once the text nodes that _should_drop are taken out, decoded
StripSoup(soup, decomposed) ==
  DecodeSoup(DropTextNodes(soup,
               SelectSeq(AllPaths(soup),
                         LAMBDA p : /\ IsText(NodeAt(soup, p))
                                    /\ _should_drop(NodeAt(soup, p).text))),
             decomposed)

\* `decomposed` is what the installed bs4 does with a decomposed soup
_strip_unwanted_segments(html, decomposed) ==
  IF html = <<>> THEN Returns(<<>>)
  ELSE StripSoup(RemoveTags(BeautifulSoup(html), {"rref", "audio"}), decomposed)

\* ------------------------------------------------------------------------
\* The dictionaries on disk: each maps a headword to its raw markup
\* ------------------------------------------------------------------------
\* Oxford_Advanced_Learner_s_Dictionary
OALD_DICT ==
  << <<<<"b", "a", "r">>,
       <<"<k>", "b", "a", "r", "</k>", "<c c=orange>", "n", "o", "u", "n", "</c>", "<blockquote>", "<b>", "1", "</b>", " ", "a", " ", "r", "o", "d", "</blockquote>">>>>,
     <<<<"f", "o", "o">>,
       <<"s", "e", "e", " ", "a", "l", "s", "o", " ", "b", "a", "r">>>>,
     <<<<"s", "e", "e">>,
       <<"<k>", "s", "e", "e", "</k>", "<c c=orange>", "v", "e", "r", "b", "</c>", "<blockquote>", "<b>", "1", "</b>", " ", "t", "o", " ", "l", "o", "o", "k", "</blockquote>">>>> >>

\* Concise_Oxford_English_Dictionary
CONCISE_DICT ==
  << <<<<"b", "a", "r">>,
       <<"<k>", "b", "a", "r", "</k>", "<blockquote>", "<c c=green>", "n", "</c>", " ", "a", " ", "r", "o", "d", "</blockquote>">>>>,
     <<<<"b", "a", "z">>,
       <<"<k>", "b", "a", "z", "</k>", "<blockquote>", "<c c=green>", "n", "</c>", "</blockquote>", "<blockquote>", "1", "U+300B", " ", "a", " ", "t", "o", "y", "</blockquote>">>>>,
     <<<<"f", "o", "o">>,
       <<"s", "e", "e", " ", "a", "l", "s", "o", " ", "b", "a", "z">>>> >>

\* the StarDict bundles below PROJECT_DICT_DIR, in load order
FALLBACK_DICTS ==
  << 
    << <<<<"b", "a", "r">>,
       <<"<k>", "b", "a", "r", "</k>", "a", " ", "r", "o", "d">>>>,
     <<<<"B", "a", "r">>,
       <<"<k>", "B", "a", "r", "</k>", "a", " ", "p", "u", "b">>>>,
     <<<<"q", "u", "x">>,
       <<"s", "e", "e", " ", "a", "l", "s", "o", " ", "b", "a", "r">>>>,
     <<<<"p">>,
       <<"S", "e", "e", " ", "q">>>>,
     <<<<"q">>,
       <<"U+2192", " ", "p">>>>,
     <<<<"r">>,
       <<"s", "e", "e", " ", "r">>>>,
     <<<<"t", "a", "g">>,
       <<"<b>", "[", "x", "]", "</b>">>>>,
     <<<<"r", "u", "n">>,
       <<"<k>", "r", "u", "n", "</k>", "<", "s", "p", "a", "n", " ", "s", "t", "y", "l", "e", "=", "\"", "w", "r", "i", "t", "i", "n", "g", "-", "m", "o", "d", "e", ":", " ", "v", "e", "r", "t", "i", "c", "a", "l", "-", "r", "l", ";", " ", "c", "o", "l", "o", "r", ":", "r", "e", "d", "\"", ">", "t", "o", " ", "m", "o", "v", "e", "<", "/", "s", "p", "a", "n", ">">>>> >>,
    << <<<<"r", "u", "n">>,
       <<"<", "p", " ", "s", "t", "y", "l", "e", "=", "\"", "B", "O", "R", "D", "E", "R", ":", "1", "p", "x", ";", " ", "b", "o", "r", "d", "e", "r", "-", "l", "e", "f", "t", ":", "0", "\"", ">", "f", "a", "s", "t", "<", "/", "p", ">">>>>,
     <<<<"b", "a", "r">>,
       <<"<k>", "b", "a", "r", "</k>", "[", "b", "a", "r", "]", " ", "a", " ", "c", "o", "u", "n", "t", "e", "r">>>> >>
  >>

\* pystardict's Dictionary.get(word, ""): exact, case-sensitive key
DictGet(dict, word) ==
  IF \E i \in DOMAIN dict : dict[i][1] = word THEN Row(dict, word)[2] ELSE <<>>

\* ------------------------------------------------------------------------
\* endict.py: StarDictWrapper, the fallback source
\* ------------------------------------------------------------------------
\* The spaCy pipeline en_core_web_sm is data of the environment, as the
\* dictionaries are: <<token, lemma_>> for the tokens of the model whose
\* lemma is not the token itself
LEMMAS ==
  << <<<<"b", "a", "r", "s">>, <<"b", "a", "r">>>>,
     <<<<"r", "a", "n">>, <<"r", "u", "n">>>> >>

\* the end of the token that begins the text: the tokenizer cuts where
\* white space begins or ends (no word of the model carries punctuation
\* that the tokenizer would cut off)
TokenEnd(word) ==
  MinOr({ k \in 1..(Len(word) - 1) : IsSpace(word[k + 1]) # IsSpace(word[1]) }, Len(word))

\* doc[0].lemma_
Lemma(token) ==
  IF \E i \in DOMAIN LEMMAS : LEMMAS[i][1] = token THEN Row(LEMMAS, token)[2] ELSE token

\* StarDictWrapper._lemmatize: the lemma of the first token, lowercased
_lemmatize(word) ==
  IF word = <<>> THEN Lower(word)
  ELSE Lower(Lemma(SubSeq(word, 1, TokenEnd(word))))

\* word_l[:-n] when word_l ends with the suffix, else nothing
CutSuffix(word_l, suffix, put) ==
  IF EndsWith(word_l, suffix)
    THEN <<SubSeq(word_l, 1, Len(word_l) - Len(suffix)) \o put>>
    ELSE <<>>

\* the candidates in order, empty ones and repetitions left out
Ordered(candidates) ==
  DropIndexes(candidates,
              { i \in DOMAIN candidates :
                  \/ candidates[i] = <<>>
                  \/ \E j \in 1..(i - 1) : candidates[j] = candidates[i] })

\* the candidates made from the word and its lowercase form
CandidatesOf(word, word_l) ==
  <<_lemmatize(word), word_l, word>>
  \o CutSuffix(word_l, <<"i","e","s">>, <<"y">>)
  \o CutSuffix(word_l, <<"e","s">>, <<>>)
  \o CutSuffix(word_l, <<"s">>, <<>>)

_candidate_keys(word) == Ordered(CandidatesOf(word, Lower(word)))

\* the non-empty values of the key in every loaded dictionary
_collect_from_all(dicts, key) ==
  SelectSeq([i \in DOMAIN dicts |-> DictGet(dicts[i], key)], LAMBDA v : v # <<>>)

\* position of the first occurrence of p in s at or after i, or 0
IndexOf(s, p, i) ==
  MinOr({ a \in i..(Len(s) - Len(p) + 1) : SubSeq(s, a, a + Len(p) - 1) = p }, 0)

K_OPEN == <<"<", "k", ">">>

K_CLOSE == <<"<", "/", "k", ">">>

RECURSIVE ConvertFrom(_, _)

\* the text from i on, its first <k> at a closed at b
ConvertPair(text, i, a, b) ==
  IF a = 0 \/ b = 0 THEN SubSeq(text, i, Len(text))
  ELSE SubSeq(text, i, a - 1) \o <<"<h3>">> \o SubSeq(text, a + Len(K_OPEN), b - 1)
       \o <<"</h3>">> \o ConvertFrom(text, b + Len(K_CLOSE))

ConvertOpen(text, i, a) ==
  ConvertPair(text, i, a, IF a = 0 THEN 0 ELSE IndexOf(text, K_CLOSE, a + Len(K_OPEN)))

\* re.sub(r"<k>(.*?)</k>", r"<h3>\1</h3>") on the characters from i on:
\* each <k> up to the next </k>
ConvertFrom(text, i) == ConvertOpen(text, i, IndexOf(text, K_OPEN, i))

_convert_xml_to_html(text) == ConvertFrom(Chars(text), 1)

\* the beginning of what STYLE_ATTR_RE matches
STYLE_OPEN == <<"s", "t", "y", "l", "e", "=", "\"">>

\* str.split(sep) for a separator of one character
SplitOn(s, sep) ==
  LET cuts == <<0>> \o SelectSeq([i \in DOMAIN s |-> i], LAMBDA i : s[i] = sep)
                    \o <<Len(s) + 1>>
  IN [k \in 1..(Len(cuts) - 1) |-> SubSeq(s, cuts[k] + 1, cuts[k + 1] - 1)]

\* the declaration stays: it names neither writing-mode nor a border
KeepsDeclaration(lower) ==
  /\ ~Contains(lower, <<"w", "r", "i", "t", "i", "n", "g", "-", "m", "o", "d", "e">>)
  /\ ~StartsWith(lower, <<"b", "o", "r", "d", "e", "r">>)
  /\ ~Contains(lower, <<"b", "o", "r", "d", "e", "r", "-", "l", "e", "f", "t">>)
  /\ ~Contains(lower, <<"b", "o", "r", "d", "e", "r", "-", "r", "i", "g", "h", "t">>)

\* the declarations of a style value, stripped, the empty ones left out
Declarations(style_val) ==
  SelectSeq([k \in DOMAIN SplitOn(style_val, ";") |-> Strip(SplitOn(style_val, ";")[k])],
            LAMBDA p : p # <<>>)

\* what is written for the declarations that stay: nothing when none does
StyleOf(cleaned) ==
  IF cleaned = <<>> THEN <<>>
  ELSE STYLE_OPEN \o JoinWith(<<";", " ">>, cleaned) \o <<"\"">>

\* _clean_style on the value of one style attribute
_clean_style(style_val) ==
  StyleOf(SelectSeq(Declarations(style_val), LAMBDA p : KeepsDeclaration(Lower(p))))

RECURSIVE SanitizeFrom(_, _)

\* the text from i on, its first style=" at a, the quote that ends the
\* value at b (0 when there is none: nothing matches from a on)
SanitizeMatch(s, i, a, b) ==
  IF a = 0 \/ b = 0 THEN SubSeq(s, i, Len(s))
  ELSE SubSeq(s, i, a - 1) \o _clean_style(SubSeq(s, a + Len(STYLE_OPEN), b - 1))
       \o SanitizeFrom(s, b + 1)

SanitizeOpen(s, i, a) ==
  SanitizeMatch(s, i, a, IF a = 0 THEN 0 ELSE IndexOf(s, <<"\"">>, a + Len(STYLE_OPEN)))

\* STYLE_ATTR_RE.sub(_clean_style, html) on the characters from i on
SanitizeFrom(s, i) == SanitizeOpen(s, i, IndexOf(s, STYLE_OPEN, i))

\* StarDictWrapper._sanitize_styles
_sanitize_styles(html) == SanitizeFrom(Chars(html), 1)

\* html_blocks: one <div class="dict-block"> for each raw definition
HtmlBlocks(raw_defs) ==
  [k \in DOMAIN raw_defs |->
     <<"<div class=dict-block>">>
     \o _sanitize_styles(_convert_xml_to_html(raw_defs[k]))
     \o <<"</div>">>]

\* the blocks joined with the divider, or "" when there is none
JoinBlocks(raw_defs) ==
  IF raw_defs = <<>> THEN <<>>
  ELSE JoinWith(<<"<div style=border-top>", "</div>">>, HtmlBlocks(raw_defs))

\* raw_defs: what every dictionary holds for every candidate key
RawDefs(dicts, keys) ==
  Concat([k \in DOMAIN keys |-> _collect_from_all(dicts, keys[k])])

\* StarDictWrapper.get_def
fallback_get_def(dicts, word) ==
  IF dicts = <<>> THEN <<>> ELSE JoinBlocks(RawDefs(dicts, _candidate_keys(word)))

\* ------------------------------------------------------------------------
\* dictionary_lookup.py: HTMLDefinitionLookup
\* ------------------------------------------------------------------------
VARIABLES
  _oald_parser,     \* "None" (not yet built), "False" (unavailable) or "Parser"
  _concise_parser,  \* the same for the Concise Oxford parser
  _cache,           \* lowercased headword -> final HTML
  env,              \* what the dictionary files on disk allow: per source
                    \* "ok", "missing" (no .ifo file) or "corrupt" (unreadable)
  words,            \* the word list of this run
  last,             \* the most recent call and what it did
  first,            \* history: key -> the string the first call for it returned
  built,            \* history: per source, the constructions that succeeded
  attempted,        \* history: per source, the constructor calls, counted
                    \* up to AttemptCap
  probe             \* a pure function, its argument and its result

vars == <<_oald_parser, _concise_parser, _cache, env, words, last, first, built,
          attempted, probe>>

Sources == <<"oald", "concise", "fallback">>

\* the constructor calls of a source are counted up to this number
AttemptCap == 3

\* render_entry_html(entry, heading_level=2)
DEFAULT_HEADING_LEVEL == 2

\* what a provider, the cross-reference procedure or the chain of sources
\* did: the HTML (or the exception that escaped), the parser fields it
\* leaves, the provider calls, the constructor calls and, per source that
\* was consulted, what its procedure yielded
Run(html, exc, self, calls, attempts, yields) ==
  [html |-> html, exc |-> exc, self |-> self, calls |-> calls,
   attempts |-> attempts, yields |-> yields]

\* nothing was done: return ""
Idle(self) == Run(<<>>, "", self, <<>>, <<>>, <<>>)

\* a first, then b
Chain(a, b) ==
  Run(b.html, b.exc, b.self, a.calls \o b.calls, a.attempts \o b.attempts,
      a.yields \o b.yields)

\* _get_oald_parser / _get_concise_parser: the parser field afterwards,
\* the exception (if any) that the constructor let escape, and whether the
\* constructor was called; only FileNotFoundError is caught
GetParser(parser, disk) ==
  IF parser = "None"
    THEN IF disk = "ok" THEN [parser |-> "Parser", exc |-> "", tried |-> TRUE]
         ELSE IF disk = "missing" THEN [parser |-> "False", exc |-> "", tried |-> TRUE]
         ELSE [parser |-> "None", exc |-> "Exception", tried |-> TRUE]
    ELSE [parser |-> parser, exc |-> "", tried |-> FALSE]

\* the dictionary a parser reads
DictOf(src) == IF src = "oald" THEN OALD_DICT ELSE CONCISE_DICT

\* faulty variant: empty markup is parsed like any other
get_entry_anyway(src, word, raw) ==
  IF src = "oald" THEN _parse_entry(word, raw) ELSE _parse_html(word, raw)

\* parser.get_entry(word): KeyError when the dictionary has no markup
get_entry(src, word, raw) ==
  IF raw = <<>> THEN RaisedParse("KeyError")
  ELSE IF src = "oald" THEN _parse_entry(word, raw)
  ELSE _parse_html(word, raw)

\* try: entry = ... except KeyError: return ""; return render_entry_html(entry)
Rendered(parsed) ==
  IF parsed.exc = "KeyError" THEN [exc |-> "", html |-> <<>>]
  ELSE IF parsed.exc # "" THEN [exc |-> parsed.exc, html |-> <<>>]
  ELSE [exc |-> "", html |-> render_entry_html(parsed.entry, DEFAULT_HEADING_LEVEL)]

EntryHtml(src, word) == Rendered(get_entry(src, word, DictGet(DictOf(src), word)))

\* the provider's run once the entry was looked up
Answer(e, self, attempts) == Run(e.html, e.exc, self, <<>>, attempts, <<>>)

\* _lookup_oald / _lookup_concise with g the outcome of the parser getter
LookupWith(src, word, self, attempts, g) ==
  IF g.exc # "" THEN Run(<<>>, g.exc, self, <<>>, attempts, <<>>)
  ELSE IF g.parser # "Parser" THEN Run(<<>>, "", self, <<>>, attempts, <<>>)
  ELSE Answer(EntryHtml(src, word), self, attempts)

LookupGot(src, word, self, g) ==
  LookupWith(src, word, [self EXCEPT ![src] = g.parser],
             IF g.tried THEN <<src>> ELSE <<>>, g)

LookupParsed(src, word, self, disk) ==
  LookupGot(src, word, self, GetParser(self[src], disk))

\* the dictionaries StarDictWrapper loaded from PROJECT_DICT_DIR
LoadedDicts(disk) == IF disk = "ok" THEN FALLBACK_DICTS ELSE <<>>

\* _lookup_fallback
LookupFallback(word, self, disk) ==
  Run(fallback_get_def(LoadedDicts(disk), word), "", self, <<>>, <<>>, <<>>)

\* provider(key) for the three providers of get_def
Provider(src, word, self, disk) ==
  IF src = "fallback" THEN LookupFallback(word, self, disk[src])
  ELSE LookupParsed(src, word, self, disk[src])

\* the run with its provider call entered in the call log
Called(r, src, key) ==
  [r EXCEPT !.calls = <<[src |-> src, word |-> key, html |-> r.html, exc |-> r.exc]>>]

\* return ""
Nothing(r) == [r EXCEPT !.html = <<>>]

\* faulty variant: the visited set holds the key as typed
lowered_exact(key) == key

\* lowered = key.lower()
lowered(key) == Lower(key)

RECURSIVE _lookup_with_cross_reference(_, _, _, _, _)

\* faulty variant: a redirect is followed in the first source of the list,
\* whatever source the notice came from
Redirect_elsewhere(src, seen, r, target, disk) ==
  IF target # None /\ Lower(target) \notin seen
    THEN Chain(r, _lookup_with_cross_reference(Sources[1], target, seen, r.self, disk))
    ELSE Nothing(r)

\* if target and target.lower() not in seen: follow it, else return ""
Redirect(src, seen, r, target, disk) ==
  IF target # None /\ Lower(target) \notin seen
    THEN Chain(r, _lookup_with_cross_reference(src, target, seen, r.self, disk))
    ELSE Nothing(r)

\* what follows the provider call
Follow(src, seen, r, disk) ==
  IF r.exc # "" THEN r
  ELSE IF _is_valid_definition(r.html) THEN r
  ELSE Redirect(src, seen, r, _extract_cross_reference(r.html), disk)

\* the procedure once key = word.strip() is not empty
LookupKey(src, key, seen, self, disk) ==
  IF lowered(key) \in seen THEN Idle(self)
  ELSE Follow(src, seen \cup {lowered(key)},
              Called(Provider(src, key, self, disk), src, key), disk)

_lookup_with_cross_reference(src, word, seen, self, disk) ==
  IF Strip(word) = <<>> THEN Idle(self)
  ELSE LookupKey(src, Strip(word), seen, self, disk)

\* faulty variant: no source ever wins, every source is consulted
Wins_never(html) == FALSE

\* a or b: b is evaluated when a is falsy (the empty string)
Wins(html) == html # <<>>

\* the run of one source, entered in the list of what the sources yielded
Yielded(r, src) == [r EXCEPT !.yields = << <<src, r.html>> >>]

RECURSIVE FirstYield(_, _, _, _)

\* r or (the next source, if there is one)
OrNext(i, key, r, disk) ==
  IF r.exc # "" \/ Wins(r.html) \/ i = Len(Sources) THEN r
  ELSE Chain(r, FirstYield(i + 1, key, r.self, disk))

\* oald(key) or concise(key) or fallback(key), from source i on
FirstYield(i, key, self, disk) ==
  OrNext(i, key,
         Yielded(_lookup_with_cross_reference(Sources[i], key, {}, self, disk),
                 Sources[i]),
         disk)

\* the cache with one more entry
CachePut(cache, key, html) ==
  [k \in DOMAIN cache \cup {key} |-> IF k = key THEN html ELSE cache[k]]

\* faulty variant: the cache key keeps the casing of the word
cache_key_exact(key) == key

\* cache_key = key.lower()
cache_key(key) == Lower(key)

\* faulty variant: the cache is never consulted
CacheHit_never(cache, key) == FALSE

\* if cache_key in self._cache
CacheHit(cache, key) == key \in DOMAIN cache

\* what a call of get_def did: whether it returned (and what) or raised,
\* whether the cache answered, and the fields it leaves
Did(returned, exc, result, hit, cache, r) ==
  [returned |-> returned, exc |-> exc, result |-> result, hit |-> hit,
   self |-> r.self, cache |-> cache, calls |-> r.calls, attempts |-> r.attempts,
   yields |-> r.yields]

\* self._cache[cache_key] = html; return html
Store(key, cache, r, html) == Did(TRUE, "", html, FALSE, CachePut(cache, key, html), r)

\* the call of the sanitizer returned, or its exception leaves get_def
\* before the cache is written
Sanitized(key, cache, r, clean) ==
  IF clean.exc # "" THEN Did(FALSE, clean.exc, <<>>, FALSE, cache, r)
  ELSE Store(key, cache, r, clean.html)

\* html = self._strip_unwanted_segments(html), unless an exception escaped
Finish(key, cache, r, disk) ==
  IF r.exc # "" THEN Did(FALSE, r.exc, <<>>, FALSE, cache, r)
  ELSE Sanitized(key, cache, r, _strip_unwanted_segments(r.html, disk.decomposed))

\* get_def once key = word.strip() is not empty
Resolve(key, self, cache, disk) ==
  IF CacheHit(cache, cache_key(key))
    THEN Did(TRUE, "", cache[cache_key(key)], TRUE, cache, Idle(self))
    ELSE Finish(cache_key(key), cache, FirstYield(1, key, self, disk), disk)

\* faulty variant: the word is not stripped
StripWord_keep(word) == word

\* key = word.strip()
StripWord(word) == Strip(word)

\* if not key: return ""
KeyedGetDef(key, self, cache, disk) ==
  IF key = <<>> THEN Did(TRUE, "", <<>>, FALSE, cache, Idle(self))
  ELSE Resolve(key, self, cache, disk)

\* HTMLDefinitionLookup.get_def(word)
get_def(word, self, cache, disk) == KeyedGetDef(StripWord(word), self, cache, disk)

\* what the dictionary files allow, per run
DiskCases ==
  << [oald |-> "ok", concise |-> "ok", fallback |-> "ok"],
     [oald |-> "missing", concise |-> "ok", fallback |-> "ok"],
     [oald |-> "missing", concise |-> "missing", fallback |-> "ok"],
     [oald |-> "missing", concise |-> "missing", fallback |-> "missing"],
     [oald |-> "corrupt", concise |-> "ok", fallback |-> "ok"],
     [oald |-> "ok", concise |-> "corrupt", fallback |-> "ok"],
     [oald |-> "missing", concise |-> "corrupt", fallback |-> "ok"] >>

\* the environment of a run: the dictionary files and the installed bs4
Installed(disk, decomposed) ==
  [oald |-> disk.oald, concise |-> disk.concise, fallback |-> disk.fallback,
   decomposed |-> decomposed]

\* every case of the files with each of the two builds of bs4
EnvCases ==
  [i \in DOMAIN DiskCases |-> Installed(DiskCases[i], "<None></None>")]
  \o [i \in DOMAIN DiskCases |-> Installed(DiskCases[i], "TypeError")]

\* the environments with all dictionaries present, one per build of bs4
BothBuilds == { e \in Range(EnvCases) : e.oald = "ok" /\ e.concise = "ok" /\ e.fallback = "ok" }

\* the word lists a run looks up
WordLists ==
  << <<<<>>, <<" ", " ">>, <<"b", "a", "r">>, <<"B", "a", "r">>, <<" ", "B", "A", "R", " ">>>>,
     <<<<"f", "o", "o">>, <<"q", "u", "x">>, <<"b", "a", "z">>, <<"z", "i", "p">>>>,
     <<<<"p">>, <<"q">>, <<"r">>, <<"Q">>>>,
     <<<<"s", "e", "e">>, <<"t", "a", "g">>, <<" ">>, <<"f", "o", "o">>>>,
     <<<<"r", "a", "n">>, <<"b", "a", "r", " ", "x">>, <<"b", "a", "r", "s">>,
       <<"r", "u", "n">>>> >>

NoCall ==
  [op |-> "init", word |-> <<>>, key |-> <<>>, returned |-> TRUE, exc |-> "",
   result |-> <<>>, hit |-> FALSE, repeat |-> FALSE, calls |-> <<>>,
   attempts |-> <<>>, yields |-> <<>>]

NoProbe == [fn |-> "", arg |-> <<>>, done |-> FALSE, out |-> FALSE]

\* the resolver as __init__ leaves it: no parser, an empty cache; the
\* fallback is built (or handed in) by __init__ itself
NewResolver ==
  /\ _oald_parser = "None"
  /\ _concise_parser = "None"
  /\ _cache = <<>>
  /\ last = NoCall
  /\ first = <<>>
  /\ built = [oald |-> 0, concise |-> 0, fallback |-> 1]
  /\ attempted = [oald |-> 0, concise |-> 0, fallback |-> 1]

Init ==
  /\ NewResolver
  /\ env \in Range(EnvCases)
  /\ words \in Range(WordLists)
  /\ probe = NoProbe

\* the number of times src occurs in the sequence
Count(seq, src) == Cardinality({ i \in DOMAIN seq : seq[i] = src })

\* the state after a call of get_def that did o
Record(word, key, o) ==
  /\ _oald_parser' = o.self.oald
  /\ _concise_parser' = o.self.concise
  /\ _cache' = o.cache
  /\ last' = [op |-> "get_def", word |-> word, key |-> key,
              returned |-> o.returned, exc |-> o.exc, result |-> o.result,
              hit |-> o.hit, repeat |-> key \in DOMAIN first,
              calls |-> o.calls, attempts |-> o.attempts, yields |-> o.yields]
  /\ first' = IF o.returned /\ key # <<>> /\ key \notin DOMAIN first
                THEN CachePut(first, key, o.result) ELSE first
  /\ built' = [s \in DOMAIN built |->
                 IF s \in Range(o.attempts) /\ o.self[s] = "Parser"
                   THEN built[s] + 1 ELSE built[s]]
  /\ attempted' = [s \in DOMAIN attempted |->
                     Min(attempted[s] + Count(o.attempts, s), AttemptCap)]

\* one call of get_def (or of __getitem__, which forwards to it)
GetDef(word) ==
  /\ Record(word, Lower(Strip(word)),
            get_def(word, [oald |-> _oald_parser, concise |-> _concise_parser],
                    _cache, env))
  /\ UNCHANGED <<env, words, probe>>

Next == \E i \in DOMAIN words : GetDef(words[i])

Spec == Init /\ [][Next]_vars

\* ------------------------------------------------------------------------
\* _is_valid_definition applied to rendered HTML of every shape
\* ------------------------------------------------------------------------
\* how the text of a probe begins
ProbePrefixes ==
  << <<"s", "e", "e", " ">>,
     <<"S", "e", "e", " ">>,
     <<"S", "E", "E", " ", "a", "l", "s", "o", " ">>,
     <<"s", "e", "e", " ", "a", "l", "s", "o">>,
     <<"s", "e", "e">>,
     <<"s", "e", "e", "n", " ">>,
     <<"U+2192">>,
     <<"U+2192", " ", "x">>,
     <<"n", "o", "n", "e", ".", " ", "U+2192">>,
     <<"N", "o", "n", "e", ".", " ", "U+2192", " ", "x">>,
     <<"n", "o", "n", "e", ".", "U+2192">>,
     <<"n", "o", "n", "e", ".", " ", "x">>,
     <<" ", "s", "e", "e", " ">>,
     <<"x", " ", "s", "e", "e", " ">>,
     <<>>,
     <<" ">>,
     <<"a", "l", "s", "o", " ", "s", "e", "e", " ">>,
     <<"S", "e", "e", "\n", "a", "l", "s", "o", " ">> >>

\* what follows the beginning: nothing, more text, text in a tag of its
\* own, or text behind a "<" that is not escaped
ProbeSuffixes ==
  << <<>>, <<"b", "a", "r">>, <<"<b>", "b", "a", "r", "</b>">>,
     <<" ", "a", " ", "r", "o", "d">>, <<"<", "b", "a", "r">> >>

\* the element the text is wrapped in, if any
ProbeWrappers ==
  << << <<>>, <<>> >>,
     << <<"<p>">>, <<"</p>">> >>,
     << <<"<div class=dict-block>", "<b>">>, <<"</b>", "</div>">> >> >>

ProbeHtml ==
  { w[1] \o p \o s \o w[2] :
      w \in Range(ProbeWrappers), p \in Range(ProbePrefixes), s \in Range(ProbeSuffixes) }

\* a resolver that is not used, and an HTML string to classify
InitValid ==
  /\ NewResolver
  /\ env = EnvCases[1]
  /\ words = WordLists[1]
  /\ probe \in { [fn |-> "_is_valid_definition", arg |-> h, done |-> FALSE, out |-> FALSE] :
                   h \in ProbeHtml }

\* the call _is_valid_definition(html)
ApplyValid ==
  /\ probe.fn = "_is_valid_definition"
  /\ ~probe.done
  /\ probe' = [probe EXCEPT !.done = TRUE, !.out = _is_valid_definition(probe.arg)]
  /\ UNCHANGED <<_oald_parser, _concise_parser, _cache, env, words, last, first,
                 built, attempted>>

NextValid == ApplyValid

SpecValid == InitValid /\ [][NextValid]_vars

\* ------------------------------------------------------------------------
\* Properties of the resolver
\* ------------------------------------------------------------------------
\* the parsers, the sources that are built on demand
Parsers == {"oald", "concise"}

\* the parser field of a source
ParserField(s) == IF s = "oald" THEN _oald_parser ELSE _concise_parser

\* the provider calls of the last lookup that went to source s
CallsOf(s) == SelectSeq(last.calls, LAMBDA c : c.src = s)

\* the sources the last lookup consulted
Consulted == { last.yields[i][1] : i \in DOMAIN last.yields }

\* what the last consulted source yielded
LastYield == last.yields[Len(last.yields)][2]

\* the last lookup resolved a non-empty key without the cache and returned
Resolved ==
  /\ last.op = "get_def"
  /\ last.returned
  /\ ~last.hit
  /\ Strip(last.word) # <<>>

\* C1: once get_def has returned for a key, every later call whose trimmed,
\* lowercased word is that key returns the identical string and calls no
\* provider of any source
C1_CacheIdempotent ==
  (last.op = "get_def" /\ last.repeat)
    => /\ last.returned
       /\ last.result = first[last.key]
       /\ last.calls = <<>>
       /\ last.attempts = <<>>

\* a second call, spelled differently, answered with a definition
C1_Witness ==
  /\ last.op = "get_def"
  /\ last.repeat
  /\ last.word = <<" ", "B", "A", "R", " ">>
  /\ last.result # <<>>
  /\ last.result = first[<<"b", "a", "r">>]

\* C2: get_def never raises: every call returns a string
C2_NeverRaises == last.op = "get_def" => last.returned

\* the markup source s holds for the word: for the fallback, what its
\* dictionaries hold for the word as typed
HeldMarkup(s, word) ==
  IF s = "fallback" THEN Concat(_collect_from_all(FALLBACK_DICTS, word))
  ELSE DictGet(DictOf(s), word)

\* the markup is the notice "see also <target>" and nothing else
IsNoticeFor(markup, target) == target # None /\ markup = SEE_ALSO_SP \o target

\* the word the notice names, or None
NoticeTarget(markup) ==
  IF StartsWith(markup, SEE_ALSO_SP) THEN TargetAt(markup, Len(SEE_ALSO_SP) + 1) ELSE None

\* call i of the last lookup asked a readable source for a headword whose
\* only markup is a redirect notice to a word the source defines
RedirectCall(i) ==
  /\ env[last.calls[i].src] = "ok"
  /\ IsNoticeFor(HeldMarkup(last.calls[i].src, last.calls[i].word),
                 NoticeTarget(HeldMarkup(last.calls[i].src, last.calls[i].word)))
  /\ _is_valid_definition(
       HeldMarkup(last.calls[i].src,
                  NoticeTarget(HeldMarkup(last.calls[i].src, last.calls[i].word))))

\* C3: a headword whose only markup is "see also foo", in a source that
\* defines foo, is classified invalid, its target foo is extracted and
\* looked up in the same source, and the result is foo's sanitized
\* definition, not the rendering of the notice
C3_RedirectFollowed ==
  \A i \in DOMAIN last.calls :
    RedirectCall(i)
      => /\ ~_is_valid_definition(last.calls[i].html)
         /\ _extract_cross_reference(last.calls[i].html)
              = NoticeTarget(HeldMarkup(last.calls[i].src, last.calls[i].word))
         /\ i < Len(last.calls)
         /\ last.calls[i + 1].src = last.calls[i].src
         /\ last.calls[i + 1].word
              = NoticeTarget(HeldMarkup(last.calls[i].src, last.calls[i].word))
         /\ last.returned
              => last.result
                   = _strip_unwanted_segments(last.calls[i + 1].html, env.decomposed).html

\* C4: the sources are consulted in the order OALD, Concise, fallback; a
\* source is consulted only when every earlier one yielded nothing; the
\* result is the sanitized output of the first source that yields a
\* definition, alone, and the empty string when none does
C4_FirstSourceWins ==
  Resolved
    => /\ Len(last.yields) \in 1..Len(Sources)
       /\ \A i \in DOMAIN last.yields : last.yields[i][1] = Sources[i]
       /\ \A i \in 1..(Len(last.yields) - 1) : last.yields[i][2] = <<>>
       /\ Len(last.yields) < Len(Sources) => LastYield # <<>>
       /\ LastYield # <<>> => _is_valid_definition(LastYield)
       /\ last.result = _strip_unwanted_segments(LastYield, env.decomposed).html
       /\ LastYield = <<>> => last.result = <<>>
       /\ \A i \in DOMAIN last.calls : last.calls[i].src \in Consulted
       /\ \A i, j \in DOMAIN last.calls :
            i < j => \E a, b \in DOMAIN Sources :
                       /\ a <= b
                       /\ Sources[a] = last.calls[i].src
                       /\ Sources[b] = last.calls[j].src

\* the Concise Oxford wins after OALD, asked first, yielded nothing, and
\* the fallback is not asked
C4_Witness ==
  /\ Resolved
  /\ Len(last.yields) = 2
  /\ last.yields[1] = <<"oald", <<>>>>
  /\ last.yields[2][2] # <<>>
  /\ last.result # <<>>
  /\ CallsOf("oald") # <<>>
  /\ CallsOf("fallback") = <<>>

\* get_def("ran"): no dictionary holds "ran"; the fallback finds "run",
\* the lemma, in both of its dictionaries, and the style attributes of the
\* two definitions are written without writing-mode and without borders
LemmaFindsEntry ==
  /\ last.op = "get_def"
  /\ last.word = <<"r", "a", "n">>
  /\ last.yields[Len(last.yields)][1] = "fallback"
  /\ last.result
       = <<"<div class=dict-block>", "<h3>", "r", "u", "n", "</h3>",
           "<", "s", "p", "a", "n", " ", "s", "t", "y", "l", "e", "=", "\"",
           "c", "o", "l", "o", "r", ":", "r", "e", "d", "\"", ">",
           "t", "o", " ", "m", "o", "v", "e", "</span>", "</div>",
           "<div style=border-top>", "</div>",
           "<div class=dict-block>", "<p>", "f", "a", "s", "t", "</p>", "</div>">>

\* get_def("bar x"): the lemma is that of the first token, "bar"
FirstTokenIsLooked ==
  /\ last.op = "get_def"
  /\ last.word = <<"b", "a", "r", " ", "x">>
  /\ last.yields[Len(last.yields)][1] = "fallback"
  /\ Contains(last.result, <<"a", " ", "r", "o", "d">>)

\* the lowercased words source s was asked for in the last lookup
AskedWords(s) == { Lower(CallsOf(s)[i].word) : i \in DOMAIN CallsOf(s) }

\* the lowercased headwords a source holds
Headwords(s) ==
  IF s = "fallback"
    THEN UNION { { Lower(FALLBACK_DICTS[d][i][1]) : i \in DOMAIN FALLBACK_DICTS[d] } :
                 d \in DOMAIN FALLBACK_DICTS }
    ELSE { Lower(DictOf(s)[i][1]) : i \in DOMAIN DictOf(s) }

\* the last provider call to s was answered with a redirect to a word
\* that had been asked for already
ClosesOnVisited(s) ==
  /\ CallsOf(s) # <<>>
  /\ CallsOf(s)[Len(CallsOf(s))].exc = ""
  /\ ~_is_valid_definition(CallsOf(s)[Len(CallsOf(s))].html)
  /\ _extract_cross_reference(CallsOf(s)[Len(CallsOf(s))].html) # None
  /\ Lower(_extract_cross_reference(CallsOf(s)[Len(CallsOf(s))].html)) \in AskedWords(s)

\* C5: following cross references in one source terminates: the provider
\* is never called twice for the same lowercased word, so a chain among N
\* words takes at most N calls, and a chain that closes on a visited word
\* yields the empty string
C5_ChainTerminates ==
  \A s \in Range(Sources) :
    /\ Len(CallsOf(s)) = Cardinality(AskedWords(s))
    /\ Len(CallsOf(s)) <= Cardinality(Headwords(s) \cup {Lower(Strip(last.word))})
    /\ ClosesOnVisited(s) => \A i \in DOMAIN last.yields :
                               last.yields[i][1] = s => last.yields[i][2] = <<>>

\* the chain p -> q -> p of the fallback: two calls, then nothing
C5_Witness ==
  /\ last.op = "get_def"
  /\ last.word = <<"p">>
  /\ Len(CallsOf("fallback")) = 2
  /\ CallsOf("fallback")[2].word = <<"q">>
  /\ ClosesOnVisited("fallback")
  /\ last.returned
  /\ last.result = <<>>

\* C6: get_def of an empty or whitespace-only word returns "" and changes
\* neither the cache nor a parser field; no source is constructed or asked
C6_EmptyWordNoEffect ==
  [][(last'.op = "get_def" /\ Strip(last'.word) = <<>>)
       => /\ last'.returned
          /\ last'.result = <<>>
          /\ _cache' = _cache
          /\ _oald_parser' = _oald_parser
          /\ _concise_parser' = _concise_parser
          /\ last'.calls = <<>>
          /\ last'.attempts = <<>>
          /\ built' = built
          /\ attempted' = attempted]_vars

\* a whitespace-only word after a lookup that filled the cache
C6_Witness ==
  /\ last.op = "get_def"
  /\ last.word = <<" ", " ">>
  /\ last.result = <<>>
  /\ _cache # <<>>
  /\ <<" ", " ">> \notin DOMAIN _cache
  /\ <<>> \notin DOMAIN _cache

\* C7: a cache entry is written once: no step changes or removes an
\* entry, a new entry is the sanitized string the call returns, filed
\* under the lowercased key, and it stays what the first call returned
C7_CacheWrittenOnce ==
  [][/\ \A k \in DOMAIN _cache : k \in DOMAIN _cache' /\ _cache'[k] = _cache[k]
     /\ \A k \in DOMAIN _cache' \ DOMAIN _cache :
          /\ k = Lower(Strip(last'.word))
          /\ last'.returned
          /\ ~last'.hit
          /\ _cache'[k] = last'.result
          /\ _cache'[k] = _strip_unwanted_segments(last'.yields[Len(last'.yields)][2],
                                                   env.decomposed).html
     /\ \A k \in DOMAIN _cache' : k \in DOMAIN first' /\ _cache'[k] = first'[k]]_vars

\* the cache holds "" for a word no source defines and a definition for
\* another, and the last call was answered from it
C7_Witness ==
  /\ <<"z", "i", "p">> \in DOMAIN _cache
  /\ _cache[<<"z", "i", "p">>] = <<>>
  /\ <<"b", "a", "z">> \in DOMAIN _cache
  /\ _cache[<<"b", "a", "z">>] # <<>>
  /\ last.hit

\* C8: a source whose construction failed is marked failed for good: its
\* constructor is not called a second time and the lookups that follow
\* skip the source and return
C8_FailurePermanent ==
  \A s \in Parsers :
    attempted[s] > built[s]
      => /\ ParserField(s) = "False"
         /\ attempted[s] = 1
         /\ last.op = "get_def" => last.returned

\* C9: every source, the fallback included, is constructed on demand and
\* once at most: none is constructed when the resolver is created, a
\* constructor is called only by a lookup that consults the source, never
\* by a lookup that an earlier source answers, and never a second time
C9_EverySourceLazy ==
  /\ last.op = "init" => \A s \in Range(Sources) : attempted[s] = 0
  /\ [][\A s \in Range(Sources) :
          /\ attempted'[s] <= 1
          /\ attempted'[s] > attempted[s]
               => \E i \in DOMAIN last'.yields : last'.yields[i][1] = s
          /\ (\E i \in DOMAIN last'.yields :
                /\ last'.yields[i][2] # <<>>
                /\ \E a, b \in DOMAIN Sources :
                     a < b /\ Sources[a] = last'.yields[i][1] /\ Sources[b] = s)
               => attempted'[s] = attempted[s]]_vars

\* what holds of the two parsers: none exists in a new resolver, a parser
\* is constructed only by a lookup that consults its source while the
\* field is unset, never by a lookup an earlier source answers, and once
\* constructed it is not constructed again
ParsersOnDemand ==
  /\ last.op = "init" => \A s \in Parsers : attempted[s] = 0 /\ ParserField(s) = "None"
  /\ [][\A s \in Parsers :
          /\ built'[s] <= 1
          /\ attempted'[s] > attempted[s]
               => /\ ParserField(s) = "None"
                  /\ built[s] = 0
                  /\ \E i \in DOMAIN last'.yields : last'.yields[i][1] = s
          /\ (s = "concise" /\ last'.yields # <<>> /\ last'.yields[1][2] # <<>>)
               => /\ _concise_parser' = _concise_parser
                  /\ attempted'[s] = attempted[s]]_vars

\* OALD answered, so the Concise parser was never constructed
OaldAloneBuilt ==
  /\ built.oald = 1
  /\ _oald_parser = "Parser"
  /\ attempted.concise = 0
  /\ _concise_parser = "None"
  /\ last.op = "get_def"
  /\ last.result # <<>>
  /\ Consulted = {"oald"}

\* the constructor of an unreadable dictionary is called again by every
\* lookup that reaches its source
ConstructedAgain ==
  /\ \E s \in Parsers : attempted[s] >= 2 /\ built[s] = 0 /\ ParserField(s) = "None"
  /\ last.op = "get_def"
  /\ ~last.returned

\* the text begins with the prefix, letter case ignored
BeginsWith(text, prefix) ==
  /\ Len(text) >= Len(prefix)
  /\ \A i \in DOMAIN prefix : LowerChar(text[i]) = LowerChar(prefix[i])

\* the beginnings that mark a redirect
RedirectPrefixes ==
  { <<"s", "e", "e", " ">>,
    <<"s", "e", "e", " ", "a", "l", "s", "o", " ">>,
    <<"U+2192">>,
    <<"n", "o", "n", "e", ".", " ", "U+2192">> }

\* C10: _is_valid_definition is false exactly for the empty HTML, for
\* HTML without plain text, and for HTML whose trimmed plain text begins,
\* letter case ignored, with "see ", "see also ", the arrow or "none. ->",
\* whatever follows
C10_ValidityClassification ==
  (probe.fn = "_is_valid_definition" /\ probe.done)
    => (probe.out = FALSE
          <=> \/ probe.arg = <<>>
              \/ PlainText(probe.arg) = <<>>
              \/ \E p \in RedirectPrefixes :
                   BeginsWith(Strip(PlainText(probe.arg)), p))

\* "<p>see <bar</p>": the parser reads "<bar</p>" as a start tag, the
\* text is "see" and the HTML counts as a definition
BareLtHidesTarget ==
  /\ probe.fn = "_is_valid_definition"
  /\ probe.done
  /\ probe.arg = <<"<p>", "s", "e", "e", " ", "<", "b", "a", "r", "</p>">>
  /\ PlainText(probe.arg) = <<"s", "e", "e">>
  /\ probe.out = TRUE

\* "None. -> x bar" inside a block is not a definition, whatever follows
C10_Witness ==
  /\ probe.fn = "_is_valid_definition"
  /\ probe.done
  /\ ~probe.out
  /\ probe.arg = <<"<p>", "N", "o", "n", "e", ".", " ", "U+2192", " ", "x",
                   "b", "a", "r", "</p>">>

\* C11: redirects stay inside one source: the first provider call of every
\* consulted source asks for the word as typed (trimmed), though earlier
\* sources were asked for it already; every further call to the same source
\* asks for the target of the notice the call before it got; and a source
\* that follows a source whose chain gave nothing starts with the word as
\* typed again
C11_RedirectsStayInSource ==
  last.op = "get_def"
    => /\ \A i \in DOMAIN last.yields :
            \E j \in DOMAIN last.calls : last.calls[j].src = last.yields[i][1]
       /\ \A j \in DOMAIN last.calls :
            IF j = 1 \/ last.calls[j - 1].src # last.calls[j].src
              THEN last.calls[j].word = Strip(last.word)
              ELSE /\ last.calls[j - 1].exc = ""
                   /\ ~_is_valid_definition(last.calls[j - 1].html)
                   /\ last.calls[j].word = _extract_cross_reference(last.calls[j - 1].html)

\* "see" in OALD renders to text that begins "see verb": OALD is asked for
\* "verb", has nothing, and the Concise Oxford is asked for "see" again
C11_Witness ==
  /\ last.op = "get_def"
  /\ last.word = <<"s", "e", "e">>
  /\ Len(last.calls) >= 3
  /\ last.calls[1].src = "oald"
  /\ last.calls[2].src = "oald"
  /\ last.calls[2].word = <<"v", "e", "r", "b">>
  /\ last.calls[3].src = "concise"
  /\ last.calls[3].word = <<"s", "e", "e">>
  /\ last.yields[1] = <<"oald", <<>>>>

\* ------------------------------------------------------------------------
\* _extract_cross_reference applied to HTML of every shape
\* ------------------------------------------------------------------------
\* how the text of a probe begins
XrefPrefixes ==
  << <<"U+2192", " ">>,
     <<"U+2192">>,
     <<"n", "o", "n", "e", ".", " ", "U+2192", " ">>,
     <<"s", "e", "e", " ", "b", "a", "r", " ", "U+2192", " ">>,
     <<"s", "e", "e", " ">>,
     <<"S", "e", "e", " ", "a", "l", "s", "o", " ">>,
     <<"s", "e", "e", " ", " ", "A", "L", "S", "O", " ", " ">>,
     <<"s", "e", "e", " ", "a", "l", "s", "o">>,
     <<"s", "e", "e">>,
     <<"x", " ", "U+2192", " ", "1", " ", "U+2192">>,
     <<"U+2192", " ", "1", " ">>,
     <<>>,
     <<" ", " ", "s", "e", "e", " ">>,
     <<"a", " ", "s", "e", "e", " ">>,
     <<"s", "e", "e", " ", "1", " ">>,
     <<"s", "e", "e", " ", "a", "l", "s", "o", " ", "1", " ">>,
     <<"c", "f", ".", " ">>,
     <<"<b>", "U+2192", "</b>">>,
     <<"<i>", "s", "e", "e", "</i>">> >>

\* what follows the beginning
XrefSuffixes ==
  << <<"f", "o", "o">>, <<"f", "o", "-", "o", "'", "s", " ", "x">>, <<>>,
     <<"<b>", "f", "o", "o", "</b>", "d">> >>

XrefHtml ==
  { w[1] \o p \o s \o w[2] :
      w \in Range(ProbeWrappers), p \in Range(XrefPrefixes), s \in Range(XrefSuffixes) }

\* a resolver that is not used, and an HTML string to search
InitXref ==
  /\ NewResolver
  /\ env = EnvCases[1]
  /\ words = WordLists[1]
  /\ probe \in { [fn |-> "_extract_cross_reference", arg |-> h, done |-> FALSE, out |-> None] :
                   h \in XrefHtml }

\* the call _extract_cross_reference(html)
ApplyXref ==
  /\ probe.fn = "_extract_cross_reference"
  /\ ~probe.done
  /\ probe' = [probe EXCEPT !.done = TRUE, !.out = _extract_cross_reference(probe.arg)]
  /\ UNCHANGED <<_oald_parser, _concise_parser, _cache, env, words, last, first,
                 built, attempted>>

NextXref == ApplyXref

SpecXref == InitXref /\ [][NextXref]_vars

\* the word of letters, apostrophes, underscores and hyphens that begins at
\* text[j] with a letter
WordFrom(text, j) ==
  SubSeq(text, j,
         CHOOSE e \in j..Len(text) :
           /\ \A k \in j..e : IsLetter(text[k]) \/ text[k] \in {"'", "_", "-"}
           /\ e < Len(text) => ~(IsLetter(text[e + 1]) \/ text[e + 1] \in {"'", "_", "-"}))

\* the places where a word begins after an arrow and optional whitespace
ArrowWords(text) ==
  { j \in DOMAIN text :
      /\ IsLetter(text[j])
      /\ \E i \in 1..(j - 1) :
           /\ text[i] = RightArrow
           /\ \A k \in (i + 1)..(j - 1) : IsSpace(text[k]) }

\* the places where a word begins after a leading "see" or "see also"
SeeWords(text) ==
  { j \in 5..Len(text) :
      /\ IsLetter(text[j])
      /\ Lower(SubSeq(text, 1, 3)) = SEE_WORD
      /\ IsSpace(text[j - 1])
      /\ \/ \A k \in 4..(j - 1) : IsSpace(text[k])
         \/ \E a \in 5..(j - 5) :
              /\ \A k \in 4..(a - 1) : IsSpace(text[k])
              /\ Lower(SubSeq(text, a, a + 3)) = ALSO_WORD
              /\ \A k \in (a + 4)..(j - 1) : IsSpace(text[k]) }

\* the target the claim describes for a plain text
ClaimedTarget(text, arrows, sees) ==
  IF arrows # {} THEN WordFrom(text, MinOf(arrows))
  ELSE IF sees # {} THEN WordFrom(text, CHOOSE j \in sees : \A k \in sees : k <= j)
  ELSE None

\* C12: _extract_cross_reference returns the word after the first arrow
\* that is followed by optional whitespace and a word, wherever it stands
\* in the plain text; without one, the word after a leading "see" or
\* "see also"; without either, no target; "none. -> foo" yields "foo"
C12_ArrowThenSee ==
  (probe.fn = "_extract_cross_reference" /\ probe.done)
    => /\ probe.out = ClaimedTarget(PlainText(probe.arg),
                                    ArrowWords(PlainText(probe.arg)),
                                    SeeWords(PlainText(probe.arg)))
       /\ probe.arg = <<"n", "o", "n", "e", ".", " ", "U+2192", " ", "f", "o", "o">>
            => probe.out = <<"f", "o", "o">>

\* "see bar -> foo": both patterns are there and the arrow's target is taken
C12_Witness ==
  /\ probe.fn = "_extract_cross_reference"
  /\ probe.done
  /\ probe.arg = <<"<p>", "s", "e", "e", " ", "b", "a", "r", " ", "U+2192", " ",
                   "f", "o", "o", "</p>">>
  /\ probe.out = <<"f", "o", "o">>

\* ------------------------------------------------------------------------
\* _strip_unwanted_segments applied to HTML with and without boilerplate
\* ------------------------------------------------------------------------
\* the piece of text that may be boilerplate; the last two hold ruby text
\* (<rt>), which get_text() of the elements around it leaves out
StripPieces ==
  << <<"B", "r", "E">>,
     <<"(", "B", ".", "r", ".", "E", ")">>,
     <<" ", "b", "r", "e", " ">>,
     <<"b", "r", "e", "a", "d">>,
     <<"B", "r", "E", " ", "x">>,
     <<"<b>", "B", "r", "E", "</b>">>,
     <<"<i>", "B", "r", "E", "</i>", " ", "<b>", "B", "R", "E", "</b>">>,
     <<"B", "r", "E", "<", "r", "t", ">", "x", "<", "/", "r", "t", ">">>,
     <<"B", "r", "E", "<", "r", "t", ">", "b", "r", "e", "<", "/", "r", "t", ">">> >>

\* what stands next to the piece, in the same element
StripSiblings ==
  << <<>>,
     <<"<i>", "f", "a", "s", "t", "</i>">>,
     <<"<i>", " ", "</i>">>,
     <<"<b>", "B", "r", "E", "</b>">>,
     <<"<i>", "</i>", "<b>", "o", "r", "</b>">>,
     <<"a", "<", "b">> >>

\* the elements around both
StripWrappers ==
  << << <<>>, <<>> >>,
     << <<"<p>">>, <<"</p>">> >>,
     << <<"<div class=dict-block>", "<p>">>, <<"</p>", "</div>">> >>,
     << <<"<div class=dict-block>", "<p>", "<b>">>, <<"</b>", "</p>", "t", "o", "</div>">> >>,
     << <<"<ul>", "<li>", "a", "</li>", "<li>">>, <<"</li>", "</ul>">> >> >>

StripHtml ==
  { w[1] \o p \o s \o w[2] :
      w \in Range(StripWrappers), p \in Range(StripPieces), s \in Range(StripSiblings) }

\* a resolver that is not used, and an HTML string to sanitize
InitStrip ==
  /\ NewResolver
  /\ env \in BothBuilds
  /\ words = WordLists[1]
  /\ probe \in { [fn |-> "_strip_unwanted_segments", arg |-> h, done |-> FALSE,
                  out |-> Returns(<<>>)] :
                   h \in StripHtml }

\* the call _strip_unwanted_segments(html)
ApplyStrip ==
  /\ probe.fn = "_strip_unwanted_segments"
  /\ ~probe.done
  /\ probe' = [probe EXCEPT !.done = TRUE,
                            !.out = _strip_unwanted_segments(probe.arg, env.decomposed)]
  /\ UNCHANGED <<_oald_parser, _concise_parser, _cache, env, words, last, first,
                 built, attempted>>

NextStrip == ApplyStrip

SpecStrip == InitStrip /\ [][NextStrip]_vars

\* the letters of the text, lowercased, spell "bre"
IsBre(text) == SelectSeq(Lower(text), IsLowerLetter) = <<"b", "r", "e">>

\* some text node under the nodes is the boilerplate token
HasBre(nodes) == \E i \in DOMAIN AllStrings(nodes) : IsBre(AllStrings(nodes)[i])

\* the visible text under the nodes that is not the boilerplate token
VisibleLeft(nodes) ==
  SelectSeq(AllStrings(nodes), LAMBDA s : ~IsBre(s) /\ Strip(s) # <<>>)

\* the node goes: a boilerplate text node, or an element that held one
\* and holds no other visible text
Goes(n) ==
  IF IsText(n) THEN IsBre(n.text)
  ELSE HasBre(n.kids) /\ VisibleLeft(n.kids) = <<>>

RECURSIVE KeptNodes(_)
\* the tree without the nodes that go
KeptNodes(nodes) ==
  IF nodes = <<>> THEN <<>>
  ELSE (IF Goes(Head(nodes)) THEN <<>>
        ELSE IF IsText(Head(nodes)) THEN <<Head(nodes)>>
        ELSE <<[Head(nodes) EXCEPT !.kids = KeptNodes(@)]>>)
       \o KeptNodes(Tail(nodes))

\* the document the claim describes
KeptDocument(doc) ==
  IF HasBre(doc) /\ VisibleLeft(doc) = <<>> THEN <<>> ELSE KeptNodes(doc)

\* the sanitizer returned the document the claim describes
AsClaimedKept(arg, out) ==
  /\ out.exc = ""
  /\ out.html = DecodeNodes(KeptDocument(BeautifulSoup(arg)))

\* C13: sanitization takes out every text node whose letters spell "bre",
\* and with it every element, at any depth, that is left without visible
\* text; every other node is kept as it was
C13_BoilerplateRemoved ==
  (probe.fn = "_strip_unwanted_segments" /\ probe.done)
    => AsClaimedKept(probe.arg, probe.out)

\* the removal leaves visible text somewhere in the document
TextLeft(doc) == ~(HasBre(doc) /\ VisibleLeft(doc) = <<>>)

\* every string of the document is one that get_text() of the elements
\* around it reads: none lies in an <rt>, <rp> or <template>
NoHiddenText(doc) == AllStrings(doc) = _all_strings(doc, {"#text"})

\* as long as the document keeps some visible text and holds no ruby or
\* template text, the output is the document the claim describes
BoilerplateRemovedWhereTextLeft ==
  (probe.fn = "_strip_unwanted_segments" /\ probe.done
     /\ TextLeft(BeautifulSoup(probe.arg))
     /\ NoHiddenText(BeautifulSoup(probe.arg)))
    => AsClaimedKept(probe.arg, probe.out)

\* "BrE" three elements deep, next to an element that holds only a space:
\* the b and the p go with it, the div, which holds "to", stays
EmptiedParentsGo ==
  /\ probe.fn = "_strip_unwanted_segments"
  /\ probe.done
  /\ probe.arg = <<"<div class=dict-block>", "<p>", "<b>", "B", "r", "E",
                   "<i>", " ", "</i>", "</b>", "</p>", "t", "o", "</div>">>
  /\ probe.out = Returns(<<"<div class=dict-block>", "t", "o", "</div>">>)

\* "<p><b>BrE</b>a<b</p>": the parser reads "<b</p>" as the start tag of
\* an element "b<" with the attribute p, the sanitizer keeps it
BareLtOpensTag ==
  /\ probe.fn = "_strip_unwanted_segments"
  /\ probe.done
  /\ probe.arg = <<"<p>", "<b>", "B", "r", "E", "</b>", "a", "<", "b", "</p>">>
  /\ probe.out = Returns(<<"<p>", "a", "<", "b", "<", " ", "p", "=", "\"", "\"", ">",
                           "<", "/", "b", "<", ">", "</p>">>)

\* "<div ...><p><b>BrE<rt>x</rt></b></p>to</div>": once "BrE" is out,
\* get_text() of the b is empty, since it leaves out the ruby text; the b
\* goes with the text "x" in it
RubyTextGoes ==
  /\ probe.fn = "_strip_unwanted_segments"
  /\ probe.done
  /\ probe.arg = <<"<div class=dict-block>", "<p>", "<b>", "B", "r", "E",
                   "<", "r", "t", ">", "x", "<", "/", "r", "t", ">",
                   "</b>", "</p>", "t", "o", "</div>">>
  /\ probe.out = Returns(<<"<div class=dict-block>", "t", "o", "</div>">>)

\* "BrE<rt>bre</rt>": "BrE" is taken out and the soup, left without text
\* it reads, is decomposed with the <rt> in it; the turn of the string
\* "bre" then asks for its parent, which is gone
LostParentRaises ==
  /\ probe.fn = "_strip_unwanted_segments"
  /\ probe.done
  /\ probe.arg = <<"B", "r", "E", "<", "r", "t", ">", "b", "r", "e", "<", "/", "r", "t", ">">>
  /\ probe.out = Raises("AttributeError")

\* "<p><b>BrE</b></p>": the b, the p and then the soup itself are
\* decomposed, and the call returns "<None></None>" or raises TypeError
WholeDocumentDropped ==
  /\ probe.fn = "_strip_unwanted_segments"
  /\ probe.done
  /\ probe.arg = <<"<p>", "<b>", "B", "r", "E", "</b>", "</p>">>
  /\ probe.out = DecodeDecomposed(env.decomposed)
  /\ probe.out # Returns(<<>>)

\* ------------------------------------------------------------------------
\* get_entry and render_entry_html applied to markup of every shape
\* ------------------------------------------------------------------------
\* the top-level pieces of Concise Oxford markup: part-of-speech headers
\* (bare, with an inline sense, with a nested numbered block), numbered and
\* plain blocks, a section header, a labelled block, a block whose nested
\* block is empty
ConcisePieces ==
  << <<"<blockquote>", "<c c=green>", "v", "</c>", "</blockquote>">>,
     <<"<blockquote>", "<c c=green>", "U+25A0", " ", "n", ".", "</c>", " ", "a", " ", "r", "o", "d", "</blockquote>">>,
     <<"<blockquote>", "<c c=green>", "v", "</c>", "<blockquote>", "1", "U+300B", " ", "m", "o", "v", "e", " ", "f", "a", "s", "t", "</blockquote>", "</blockquote>">>,
     <<"<blockquote>", "1", "U+300B", " ", "m", "o", "v", "e", " ", "f", "a", "s", "t", "</blockquote>">>,
     <<"<blockquote>", "<blockquote>", "2", "U+300B", " ", "g", "o", "</blockquote>", "</blockquote>">>,
     <<"<blockquote>", "a", "t", " ", "s", "p", "e", "e", "d", "</blockquote>">>,
     <<"<blockquote>", "P", "H", "R", "A", "S", "E", "S", "</blockquote>">>,
     <<"<blockquote>", "<b>", "r", "u", "n", " ", "u", "p", "</b>", " ", "a", "p", "p", "r", "o", "a", "c", "h", "</blockquote>">>,
     <<"<blockquote>", "x", "<blockquote>", " ", "</blockquote>", "</blockquote>">> >>

\* the top-level pieces of OALD markup: text, part-of-speech label, another
\* tag, a numbered block, a plain block, a section label, a block that
\* begins with a section keyword, an inline tag
OaldPieces ==
  << <<"h", "u", "r", "r", "y", " ">>,
     <<"<c c=orange>", "v", "e", "r", "b", "</c>">>,
     <<"<c c=blue>", "B", "r", "E", "</c>">>,
     <<"<blockquote>", "<b>", "1", "</b>", " ", "t", "o", " ", "m", "o", "v", "e", "</blockquote>">>,
     <<"<blockquote>", "a", "t", " ", "s", "p", "e", "e", "d", "</blockquote>">>,
     <<"<blockquote>", "W", "o", "r", "d", " ", "O", "r", "i", "g", "i", "n", ":", "</blockquote>">>,
     <<"<blockquote>", "T", "h", "e", "s", "a", "u", "r", "u", "s", " ", "d", "a", "s", "h", "</blockquote>">>,
     <<"<i>", "n", "o", "t", "e", "</i>">> >>

\* the number of pieces of a generated markup
MaxPieces == 2

\* longer markups: a section that stays open, a block after a sense, two
\* part-of-speech headers
ConciseLonger == { <<7, 8, 6>>, <<1, 4, 6>>, <<2, 1, 4>>, <<4, 7, 8, 6>> }

OaldLonger == { <<6, 5, 5>>, <<2, 4, 5>>, <<2, 4, 2, 5>>, <<1, 3, 4>>, <<7, 4, 5>> }

\* the headword marker the generated markups begin with
RUN_K == <<"<k>", "r", "u", "n", "</k>">>

RUN_WORD == <<"r", "u", "n">>

\* the lists of piece numbers up to the bound
PieceLists(pieces) == UNION { [1..n -> DOMAIN pieces] : n \in 0..MaxPieces }

\* the markup made of the headword marker and the listed pieces
MarkupOf(pieces, list) == RUN_K \o Concat([i \in DOMAIN list |-> pieces[list[i]]])

ParseInput(src, raw) == [src |-> src, word |-> RUN_WORD, raw |-> raw]

\* blocks without visible text: white space only, an empty inline tag
BlankPieces ==
  << <<"<blockquote>", " ", "</blockquote>">>,
     <<"<blockquote>", "<i>", "</i>", "</blockquote>">> >>

\* markups of Concise pieces with a blank block (pieces 10 and 11) among them
ConciseBlank ==
  { <<10>>, <<11>>, <<7, 10, 8>>, <<7, 11, 4>>, <<4, 10, 6>>, <<1, 11, 4>> }

\* markups of OALD pieces with a blank block (pieces 9 and 10) among them
OaldBlank ==
  { <<9>>, <<10>>, <<6, 9, 4>>, <<6, 10, 5>>, <<4, 9, 5>>, <<4, 10>>,
    <<1, 9, 8>>, <<7, 10, 5>> }

\* Concise pieces whose text holds a character reference: a part-of-speech
\* header with an inline sense, a numbered block, a labelled item
ConciseEntities ==
  << <<"<blockquote>", "<c c=green>", "n", "</c>", " ", "a", " ", "&lt;", " ", "b", "</blockquote>">>,
     <<"<blockquote>", "1", "U+300B", " ", "a", " ", "&amp;", " ", "b", "</blockquote>">>,
     <<"<blockquote>", "<b>", "a", "&gt;", "b", "</b>", " ", "x", "</blockquote>">> >>

\* OALD pieces whose text holds a character reference: text in front of the
\* first block, a part-of-speech label, a numbered block
OaldEntities ==
  << <<"a", " ", "&lt;", " ", "b", " ">>,
     <<"<c c=orange>", "a", "&amp;", "b", "</c>">>,
     <<"<blockquote>", "<b>", "1", "</b>", " ", "a", " ", "&lt;", " ", "b", "</blockquote>">> >>

\* markups with these pieces (Concise 10 to 12, OALD 9 to 11)
ConciseEntityLists == { <<10>>, <<11>>, <<7, 12>>, <<1, 11>>, <<10, 11>> }

OaldEntityLists == { <<9>>, <<11>>, <<10, 11>>, <<9, 10, 11>>, <<6, 11>> }

\* a headword marker with a character reference
AMP_K == <<"<k>", "r", "&amp;", "d", "</k>">>

\* OALD markups with a part-of-speech label after a section label, after a
\* section with content and after a sense
OaldAfterLabel ==
  { <<6, 2, 4>>, <<7, 2, 4>>, <<6, 5, 2, 4>>, <<6, 2, 5>>, <<2, 4, 2, 4>> }

\* Concise blocks with markup the dictionaries do not use: a tag <u>, and
\* a part-of-speech tag whose attribute is spelled "Green"; a tag begun
\* inside a tag; a section header behind ruby text; attributes in an order
\* the serializer changes
ConciseSpelled ==
  << <<"<blockquote>", "<", "c", " ", "c", "=", "G", "r", "e", "e", "n", ">", "n", ".",
       "</c>", " ", "a", " ", "<", "u", ">", "r", "o", "d", "<", "/", "u", ">",
       "</blockquote>">>,
     <<"<blockquote>", "<", "c", " ", "<c c=green>", "n", ".", "</c>", " ", "a", " ",
       "r", "o", "d", "</blockquote>">>,
     <<"<blockquote>", "<", "r", "t", ">", "y", "<", "/", "r", "t", ">",
       "o", "r", "i", "g", "i", "n", "</blockquote>",
       "<blockquote>", "<", "b", " ", "z", " ", "a", ">", "k", "</b>", " ", "x",
       "</blockquote>">> >>

\* the entries a dictionary may hold for the word, and no entry at all
ParseInputs ==
  { ParseInput("concise", MarkupOf(ConcisePieces, l)) :
      l \in PieceLists(ConcisePieces) \cup ConciseLonger }
  \cup { ParseInput("oald", MarkupOf(OaldPieces, l)) :
           l \in PieceLists(OaldPieces) \cup OaldLonger }
  \cup { ParseInput("concise", MarkupOf(ConcisePieces \o BlankPieces, l)) :
           l \in ConciseBlank }
  \cup { ParseInput("oald", MarkupOf(OaldPieces \o BlankPieces, l)) : l \in OaldBlank }
  \cup { ParseInput("concise", MarkupOf(ConcisePieces \o ConciseEntities, l)) :
           l \in ConciseEntityLists }
  \cup { ParseInput("oald", MarkupOf(OaldPieces \o OaldEntities, l)) :
           l \in OaldEntityLists }
  \cup { ParseInput("concise", AMP_K \o ConcisePieces[4]),
         ParseInput("oald", AMP_K \o OaldPieces[4]) }
  \cup { ParseInput("oald", MarkupOf(OaldPieces, l)) : l \in OaldAfterLabel }
  \cup { ParseInput(src, <<>>) : src \in {"concise", "oald"} }
  \cup { ParseInput("concise", ConcisePieces[2]), ParseInput("oald", OaldPieces[4]) }
  \cup { ParseInput("concise", RUN_K \o ConciseSpelled[i]) : i \in DOMAIN ConciseSpelled }

\* what get_entry did, what _lookup_oald / _lookup_concise makes of it, and
\* the rendering of the entry
ParseOutOf(parsed, lookup) ==
  [exc |-> parsed.exc, entry |-> parsed.entry, html |-> lookup.html, lookup |-> lookup]

ParseOut(parsed) == ParseOutOf(parsed, Rendered(parsed))

\* a resolver that is not used, a parser, a word and the markup held for it
InitParse ==
  /\ NewResolver
  /\ env = EnvCases[1]
  /\ words = WordLists[1]
  /\ probe \in { [fn |-> "get_entry", arg |-> a, done |-> FALSE, out |-> <<>>] :
                   a \in ParseInputs }

\* the calls parser.get_entry(word) and render_entry_html(entry)
ApplyParse ==
  /\ probe.fn = "get_entry"
  /\ ~probe.done
  /\ probe' = [probe EXCEPT
                 !.done = TRUE,
                 !.out = ParseOut(get_entry(probe.arg.src, probe.arg.word, probe.arg.raw))]
  /\ UNCHANGED <<_oald_parser, _concise_parser, _cache, env, words, last, first,
                 built, attempted>>

NextParse == ApplyParse

SpecParse == InitParse /\ [][NextParse]_vars

\* C14: the markup <k>run</k> with one top-level block that holds the green
\* span "v" and the nested block "1\u300b move fast" parses to one
\* part-of-speech block "v" with one sense, marker "1" and text
\* "move fast", and renders to the heading "run", the sub-heading "v" and
\* the list item "1. move fast"
C14_EndToEndParse ==
  (/\ probe.fn = "get_entry"
   /\ probe.done
   /\ probe.arg.src = "concise"
   /\ probe.arg.raw = MarkupOf(ConcisePieces, <<3>>))
    => /\ probe.out.exc = ""
       /\ probe.out.entry.headword = RUN_WORD
       /\ Len(probe.out.entry.pos_blocks) = 1
       /\ probe.out.entry.pos_blocks[1].label = <<"v">>
       /\ Len(probe.out.entry.pos_blocks[1].senses) = 1
       /\ probe.out.entry.pos_blocks[1].senses[1].marker = <<"1">>
       /\ probe.out.entry.pos_blocks[1].senses[1].text
            = <<"m", "o", "v", "e", " ", "f", "a", "s", "t">>
       /\ Contains(probe.out.html,
                   <<"<h2 class=entry-headword>", "r", "u", "n", "</h2>">>)
       /\ Contains(probe.out.html, <<"<h3 class=pos-label>", "v", "</h3>">>)
       /\ Contains(probe.out.html,
                   <<"<li>", "<span class=sense-marker>", "1", ".", "</span>", " ",
                     "m", "o", "v", "e", " ", "f", "a", "s", "t", "</li>">>)

\* C15: after either parser finishes, every part-of-speech block of the
\* entry holds at least one sense
C15_NoEmptyPosBlock ==
  (probe.fn = "get_entry" /\ probe.done /\ probe.out.exc = "")
    => \A i \in DOMAIN probe.out.entry.pos_blocks :
         probe.out.entry.pos_blocks[i].senses # <<>>

\* ------------------------------------------------------------------------
\* render_entry_html applied to entries of every shape and heading level
\* ------------------------------------------------------------------------
\* the heading levels a caller passes
\* how far below level 0 the passed heading levels go
HeadingBelow == 1

MaxHeading == 8

\* the calls made on one entry
MaxRenders == 2

\* section key, the text of its one item, the html of the item; the last
\* four keys are not in SECTION_DISPLAY_NAMES and their items have no html,
\* so that the text is what render_entry_html escapes
SectionTexts ==
  << <<"headnote", <<"f", "o", "r", "m", "a", "l">>, <<"f", "o", "r", "m", "a", "l">>>>,
     <<"origin", <<"O", "l", "d", " ", "E", "n", "g", "l", "i", "s", "h">>,
                 <<"O", "l", "d", " ", "E", "n", "g", "l", "i", "s", "h">>>>,
     <<"notes", <<"r", "a", "r", "e">>, <<"r", "a", "r", "e">>>>,
     <<"usage", <<>>, <<>>>>,
     <<"see_also", <<"o", "'", "c", "l", "o", "c", "k">>, <<>>>>,
     <<"etymology", <<"a", " ", "<", " ", "b", " ", "&", " ", "c">>, <<>>>>,
     <<"Word Origin", <<"s", "a", "y", " ", "\"", "h", "i", "\"">>, <<>>>>,
     <<"", <<"n", "o", " ", "k", "e", "y">>, <<>>>> >>

\* the key orders of the sections map; "usage" has no items
SectionOrders ==
  { <<>>, <<"headnote">>, <<"origin", "headnote">>, <<"origin", "headnote", "notes">>,
    <<"notes", "usage", "origin">>, <<"headnote", "notes">>,
    <<"see_also", "headnote", "etymology">>, <<"", "Word Origin">> }

\* part-of-speech label, the text of its one sense
PosTexts ==
  << <<<<"v", "e", "r", "b">>, <<"m", "o", "v", "e">>>>,
     <<<<"n", "o", "u", "n">>, <<"a", " ", "r", "a", "c", "e">>>> >>

\* the orders of pos_blocks
PosOrders == { <<>>, <<1>>, <<1, 2>>, <<2, 1>> }

SectionOf(key) ==
  [key |-> key,
   entries |-> IF Row(SectionTexts, key)[2] = <<>> THEN <<>>
               ELSE <<SectionEntry(Row(SectionTexts, key)[2], None, Row(SectionTexts, key)[3])>>]

BlockOf(i) ==
  PartOfSpeechBlock(PosTexts[i][1], <<>>, <<Sense(PosTexts[i][2], <<"1">>, PosTexts[i][2])>>)

\* the entries (mappings) handed to render_entry_html
RenderEntries ==
  { ParsedEntry(RUN_WORD, [i \in DOMAIN po |-> BlockOf(po[i])],
                [i \in DOMAIN so |-> SectionOf(so[i])], <<>>) :
      po \in PosOrders, so \in SectionOrders }

\* what the caller holds after a call: the strings returned so far and
\* the entry with its sections map as the call left it
AfterRender(out, call) ==
  [htmls |-> Append(out.htmls, call.html),
   entry |-> [out.entry EXCEPT !.sections = call.maps.own]]

\* a resolver that is not used, an entry and a heading level
InitRender ==
  /\ NewResolver
  /\ env = EnvCases[1]
  /\ words = WordLists[1]
  /\ probe \in { [fn |-> "render_entry_html",
                  arg |-> [kind |-> k, entry |-> e, heading_level |-> h],
                  done |-> FALSE,
                  out |-> [htmls |-> <<>>, entry |-> e]] :
                   k \in {"ParsedEntry", "Mapping"}, e \in RenderEntries,
                   h \in (0 - HeadingBelow)..MaxHeading }

\* the call render_entry_html(entry, heading_level) on the entry as the
\* calls before it left it
ApplyRender ==
  /\ probe.fn = "render_entry_html"
  /\ Len(probe.out.htmls) < MaxRenders
  /\ probe' = [probe EXCEPT
                 !.done = TRUE,
                 !.out = AfterRender(probe.out,
                                     RenderCall(probe.arg.kind, probe.out.entry,
                                                probe.arg.heading_level))]
  /\ UNCHANGED <<_oald_parser, _concise_parser, _cache, env, words, last, first,
                 built, attempted>>

NextRender == ApplyRender

SpecRender == InitRender /\ [][NextRender]_vars

\* the visible strings of a section that has items: its title, its items
SectionStrings(section) ==
  IF section.entries = <<>> THEN <<>>
  ELSE <<_get_display_name(section.key)>>
       \o [i \in DOMAIN section.entries |-> section.entries[i].text]

\* the visible strings of a part-of-speech block: label, marker and sense
BlockStrings(block) ==
  <<block.label>>
  \o FlattenParts([i \in DOMAIN block.senses |->
                     <<block.senses[i].marker \o <<".">>, block.senses[i].text>>])

\* the visible strings in the order the claim gives: headword, headnote,
\* the blocks in the order of pos_blocks, the other sections in map order
ClaimedStrings(entry, headnote, others) ==
  <<entry.headword>>
  \o FlattenParts([i \in DOMAIN headnote |-> SectionStrings(headnote[i])])
  \o FlattenParts([i \in DOMAIN entry.pos_blocks |-> BlockStrings(entry.pos_blocks[i])])
  \o FlattenParts([i \in DOMAIN others |-> SectionStrings(others[i])])

\* C16: whatever the key order of the sections map, the output holds the
\* headword heading, then the headnote section if there is one, then the
\* part-of-speech blocks in the order of pos_blocks, then the other
\* sections in the order of the map, and nothing else
C16_RenderOrder ==
  (probe.fn = "render_entry_html" /\ probe.done)
    => StrippedNonEmpty(AllStrings(BeautifulSoup(probe.out.htmls[1])))
         = StrippedNonEmpty(
             ClaimedStrings(probe.arg.entry,
                            SelectSeq(probe.arg.entry.sections,
                                      LAMBDA kv : kv.key = "headnote"),
                            SelectSeq(probe.arg.entry.sections,
                                      LAMBDA kv : kv.key # "headnote")))

\* "verb" before "noun", the headnote second of three keys in the map:
\* the output has the headnote first, then verb, noun, origin, notes
C16_Witness ==
  /\ probe.fn = "render_entry_html"
  /\ probe.done
  /\ probe.arg.heading_level = 2
  /\ Len(probe.arg.entry.sections) = 3
  /\ probe.arg.entry.sections[2].key = "headnote"
  /\ Len(probe.arg.entry.pos_blocks) = 2
  /\ probe.arg.entry.pos_blocks[1].label = <<"v", "e", "r", "b">>
  /\ StrippedNonEmpty(AllStrings(BeautifulSoup(probe.out.htmls[1])))
       = << <<"r", "u", "n">>,
            <<"H", "e", "a", "d", "n", "o", "t", "e">>, <<"f", "o", "r", "m", "a", "l">>,
            <<"v", "e", "r", "b">>, <<"1", ".">>, <<"m", "o", "v", "e">>,
            <<"n", "o", "u", "n">>, <<"1", ".">>, <<"a", " ", "r", "a", "c", "e">>,
            <<"O", "r", "i", "g", "i", "n">>,
            <<"O", "l", "d", " ", "E", "n", "g", "l", "i", "s", "h">>,
            <<"N", "o", "t", "e", "s">>, <<"r", "a", "r", "e">> >>

\* C17: render_entry_html leaves the entry it is given as it was, the
\* sections map with its headnote included, whether the entry is a
\* ParsedEntry or a mapping, and every call on the same entry with the
\* same heading level returns the same string
C17_RenderPure ==
  (probe.fn = "render_entry_html" /\ probe.done)
    => /\ probe.out.entry = probe.arg.entry
       /\ \A i \in DOMAIN probe.out.htmls : probe.out.htmls[i] = probe.out.htmls[1]

\* two calls on a mapping with a headnote: the map still holds the
\* headnote and both outputs show it
C17_Witness ==
  /\ probe.fn = "render_entry_html"
  /\ probe.arg.kind = "Mapping"
  /\ Len(probe.out.htmls) = 2
  /\ \E i \in DOMAIN probe.out.entry.sections :
       probe.out.entry.sections[i].key = "headnote"
  /\ Contains(probe.out.htmls[2], <<"H", "e", "a", "d", "n", "o", "t", "e">>)
  /\ probe.out.htmls[2] = probe.out.htmls[1]

\* the names of the heading elements, by level
HeadingNames == <<"h1", "h2", "h3", "h4", "h5", "h6">>

\* the start tags of headings in the HTML, in order
HeadingTags(html) ==
  SelectSeq(html, LAMBDA tok : tok \in StartTags /\ TagName(tok) \in Range(HeadingNames))

\* the level the claim gives for the headword heading
ClaimedLevel(h) == IF h < 1 THEN 1 ELSE IF h > 6 THEN 6 ELSE h

\* the level the claim gives for the sub-headings
ClaimedSubLevel(h) == IF ClaimedLevel(h) = 6 THEN 6 ELSE ClaimedLevel(h) + 1

\* C18: for every heading_level the headword heading is
\* h<min(6, max(1, heading_level))> and every other heading is one level
\* below it, h6 at most
C18_HeadingLevels ==
  (probe.fn = "render_entry_html" /\ probe.done)
    => /\ HeadingTags(probe.out.htmls[1]) # <<>>
       /\ HeadingTags(probe.out.htmls[1])[1] \in Range(HeadwordTags)
       /\ TagName(HeadingTags(probe.out.htmls[1])[1])
            = HeadingNames[ClaimedLevel(probe.arg.heading_level)]
       /\ \A i \in 2..Len(HeadingTags(probe.out.htmls[1])) :
            /\ HeadingTags(probe.out.htmls[1])[i] \notin Range(HeadwordTags)
            /\ TagName(HeadingTags(probe.out.htmls[1])[i])
                 = HeadingNames[ClaimedSubLevel(probe.arg.heading_level)]

\* heading_level 8: the headword, a part-of-speech label and a section
\* title are all h6
C18_Witness ==
  /\ probe.fn = "render_entry_html"
  /\ probe.done
  /\ probe.arg.heading_level = 8
  /\ "<h6 class=entry-headword>" \in Range(probe.out.htmls[1])
  /\ "<h6 class=pos-label>" \in Range(probe.out.htmls[1])
  /\ "<h6>" \in Range(probe.out.htmls[1])

\* C19: get_entry of either parser raises KeyError, and builds no entry,
\* exactly when the dictionary holds no markup for the word; the lookup
\* of the resolver then returns "" for that source and raises nothing
C19_EntryNotFound ==
  (probe.fn = "get_entry" /\ probe.done)
    => /\ probe.out.exc = "KeyError" <=> probe.arg.raw = <<>>
       /\ probe.arg.raw = <<>>
            => /\ probe.out.entry = RaisedParse("KeyError").entry
               /\ probe.out.lookup = [exc |-> "", html |-> <<>>]
       /\ probe.arg.raw # <<>>
            => /\ probe.out.exc = ""
               /\ probe.out.entry.raw_html = probe.arg.raw
               /\ probe.out.lookup.html # <<>>

\* the OALD parser asked for a word it holds no markup for
C19_Witness ==
  /\ probe.fn = "get_entry"
  /\ probe.done
  /\ probe.arg.src = "oald"
  /\ probe.arg.raw = <<>>
  /\ probe.out.exc = "KeyError"
  /\ probe.out.lookup.html = <<>>

\* ------------------------------------------------------------------------
\* the routing of the last top-level block of a parsed markup
\* ------------------------------------------------------------------------
\* list(root.children) of the synthetic root wrapped around the markup
RootChildren(raw) == SoupFirst(<<"<entry>">> \o raw \o <<"</entry>">>, "entry").kids

\* the blocks a parser walks: the top-level blockquotes (Concise), every
\* child of the root (OALD)
WalkedBlocks(src, kids) ==
  IF src = "concise" THEN SelectSeq(kids, LAMBDA n : n.tag = "blockquote") ELSE kids

\* the locals of _parse_html before the first iteration
ConciseStart ==
  [entry |-> ParsedEntry(<<>>, <<>>, <<>>, <<>>), current_section |-> "senses"]

\* the locals of _parse_entry before the first iteration
OaldStart ==
  [sections |-> <<>>, pos_blocks |-> <<>>,
   headnote_fragments |-> <<>>, before_first_sense |-> TRUE,
   has_block |-> FALSE, has_last_sense |-> FALSE,
   pending_section |-> "", active_section |-> ""]

\* every sense of an entry, in order
AllSenses(entry) ==
  Concat([i \in DOMAIN entry.pos_blocks |-> entry.pos_blocks[i].senses])

\* what is open when the Concise loop reaches a block
ConciseBefore(st) ==
  [entry |-> st.entry,
   section |-> IF st.current_section = "senses" THEN "" ELSE st.current_section,
   sense_open |-> /\ st.entry.pos_blocks # <<>>
                  /\ st.entry.pos_blocks[Len(st.entry.pos_blocks)].senses # <<>>]

\* what is open when the OALD loop reaches a block
OaldBefore(st) ==
  [entry |-> OaldFinish(st, <<>>, <<>>),
   section |-> IF st.pending_section # "" THEN st.pending_section
               ELSE st.active_section,
   sense_open |-> st.has_last_sense]

\* the entry and what is open after all the blocks but the last
BeforeLast(src, front) ==
  IF src = "concise" THEN ConciseBefore(ConciseLoop(ConciseStart, front))
  ELSE OaldBefore(OaldLoop(OaldStart, front))

\* a Concise block with text that is no section header, no part-of-speech
\* header and carries no sense marker
ConciseFree(block) ==
  /\ _tag_to_text(block) # <<>>
  /\ _match_section_header(block) = ""
  /\ ~_looks_like_pos_header(block)
  /\ _build_sense(block).marker = None

\* an OALD block with content that starts with no section keyword and
\* carries no sense marker
OaldFree(child) ==
  /\ child.tag = "blockquote"
  /\ _tag_to_html(child) # <<>>
  /\ _detect_section(Lower(_tag_to_text(child))) = 0
  /\ ~_looks_like_sense(child)

IsFree(src, block) == IF src = "concise" THEN ConciseFree(block) ELSE OaldFree(block)

\* where the entry grew between two points of the walk
Destinations(before, after, senses_before, senses_after) ==
  (IF Len(senses_after) > Len(senses_before) THEN {<<"Sense", "">>} ELSE {})
  \cup (IF Len(senses_after) = Len(senses_before) /\ senses_after # senses_before
          THEN {<<"continuation", "">>} ELSE {})
  \cup { <<"SectionEntry", k>> :
           k \in { key \in SectionKeys(after.sections) :
                     Len(SectionGet(after.sections, key))
                       > Len(SectionGet(before.sections, key)) } }

Routed(before, after) ==
  Destinations(before, after, AllSenses(before), AllSenses(after))

\* the destination the specification gives a free-text block
ClaimedRoute(section, sense_open) ==
  IF section # "" THEN <<"SectionEntry", section>>
  ELSE IF sense_open THEN <<"continuation", "">>
  ELSE <<"SectionEntry", "notes">>

\* the destination the Concise loop gives a block outside the headers
ConciseRoute(section, sense) ==
  IF section # "" THEN <<"SectionEntry", section>>
  ELSE IF sense # NoSense THEN <<"Sense", "">>
  ELSE <<"SectionEntry", "notes">>

CodeRoute(src, before, block) ==
  IF src = "concise" THEN ConciseRoute(before.section, _build_sense(block))
  ELSE ClaimedRoute(before.section, before.sense_open)

\* the last block went to at most one destination, and a free-text block
\* to the expected one
LastRouted(free, routed, expected) ==
  /\ Cardinality(routed) <= 1
  /\ free => routed = {expected}

LastAsCode(src, block, before, after) ==
  LastRouted(IsFree(src, block), Routed(before.entry, after),
             CodeRoute(src, before, block))

LastAsClaimed(src, block, before, after) ==
  LastRouted(IsFree(src, block), Routed(before.entry, after),
             ClaimedRoute(before.section, before.sense_open))

BlocksAsCode(src, blocks, after) ==
  (blocks # <<>> /\ blocks[Len(blocks)].tag = "blockquote")
    => LastAsCode(src, blocks[Len(blocks)],
                  BeforeLast(src, SubSeq(blocks, 1, Len(blocks) - 1)), after)

BlocksAsClaimed(src, blocks, after) ==
  (blocks # <<>> /\ blocks[Len(blocks)].tag = "blockquote")
    => LastAsClaimed(src, blocks[Len(blocks)],
                     BeforeLast(src, SubSeq(blocks, 1, Len(blocks) - 1)), after)

\* the routing the two loops implement: the last top-level block of a
\* markup goes to at most one destination and never yields both a Sense and
\* a SectionEntry; a free-text block goes to the open section if one is
\* open; otherwise, in the OALD parser it continues the most recent Sense
\* if one is open and else goes to "notes", and in the Concise parser it
\* becomes a new Sense without marker whenever its target has text and
\* else goes to "notes"
FreeTextAsCoded ==
  (probe.fn = "get_entry" /\ probe.done /\ probe.out.exc = "")
    => BlocksAsCode(probe.arg.src,
                    WalkedBlocks(probe.arg.src, RootChildren(probe.arg.raw)),
                    probe.out.entry)

\* C20: in both parsers the last top-level block of a markup goes to at
\* most one destination, and a free-text block goes to the open section if
\* one is open, otherwise continues the most recent Sense if one is open,
\* otherwise goes to "notes"; no block yields both a Sense and a
\* SectionEntry
C20_FreeTextRouting ==
  (probe.fn = "get_entry" /\ probe.done /\ probe.out.exc = "")
    => BlocksAsClaimed(probe.arg.src,
                       WalkedBlocks(probe.arg.src, RootChildren(probe.arg.raw)),
                       probe.out.entry)

\* a Concise markup whose numbered sense is followed by the free text
\* "at speed": the entry has two senses, the second without marker
FreeTextBecomesSense ==
  /\ probe.fn = "get_entry"
  /\ probe.done
  /\ probe.arg.src = "concise"
  /\ probe.arg.raw = MarkupOf(ConcisePieces, <<4, 6>>)
  /\ Len(AllSenses(probe.out.entry)) = 2
  /\ AllSenses(probe.out.entry)[1].marker = <<"1">>
  /\ AllSenses(probe.out.entry)[2].marker = None
  /\ AllSenses(probe.out.entry)[2].text = <<"a", "t", " ", "s", "p", "e", "e", "d">>
  /\ probe.out.entry.sections = <<>>

\* the entries filed under a section key, in order
NotesOf(entry) == SectionGet(entry.sections, "notes")

\* the last block was filed under "notes" without label and made neither a
\* Sense nor a PartOfSpeechBlock
FiledAsNote(before, after, notes) ==
  /\ Routed(before, after) = {<<"SectionEntry", "notes">>}
  /\ notes # <<>>
  /\ notes[Len(notes)].label = None
  /\ AllSenses(after) = AllSenses(before)
  /\ Len(after.pos_blocks) = Len(before.pos_blocks)

LastAsNote(src, block, before, after) ==
  (IsFree(src, block) /\ before.section = "" /\ ~before.sense_open)
    => FiledAsNote(before.entry, after, NotesOf(after))

BlocksAsNote(src, blocks, after) ==
  (blocks # <<>> /\ blocks[Len(blocks)].tag = "blockquote")
    => LastAsNote(src, blocks[Len(blocks)],
                  BeforeLast(src, SubSeq(blocks, 1, Len(blocks) - 1)), after)

\* C21: a free-text block met while no Sense and no section is open, and
\* which carries no sense marker, is stored as a SectionEntry under "notes"
\* with no label; it becomes no Sense and creates no PartOfSpeechBlock
C21_FreeTextToNotes ==
  (probe.fn = "get_entry" /\ probe.done /\ probe.out.exc = "")
    => BlocksAsNote(probe.arg.src,
                    WalkedBlocks(probe.arg.src, RootChildren(probe.arg.raw)),
                    probe.out.entry)

\* the OALD parser alone files such a block under "notes"
OaldFreeTextToNotes ==
  (probe.fn = "get_entry" /\ probe.done /\ probe.out.exc = "" /\ probe.arg.src = "oald")
    => BlocksAsNote("oald", RootChildren(probe.arg.raw), probe.out.entry)

\* the Concise markup that is the free text "at speed" alone: the entry has
\* a "general" block with one sense and no notes
FreeTextAloneIsSense ==
  /\ probe.fn = "get_entry"
  /\ probe.done
  /\ probe.arg.src = "concise"
  /\ probe.arg.raw = MarkupOf(ConcisePieces, <<6>>)
  /\ Len(probe.out.entry.pos_blocks) = 1
  /\ probe.out.entry.pos_blocks[1].label = <<"g", "e", "n", "e", "r", "a", "l">>
  /\ Len(AllSenses(probe.out.entry)) = 1
  /\ NotesOf(probe.out.entry) = <<>>

\* ------------------------------------------------------------------------
\* the content in front of the first header of a markup
\* ------------------------------------------------------------------------
\* a child of the root that is a part-of-speech header or a section header
IsHeaderChild(src, child) ==
  /\ ~IsText(child)
  /\ IF src = "concise"
       THEN /\ child.tag = "blockquote"
            /\ (_match_section_header(child) # "" \/ _looks_like_pos_header(child))
       ELSE \/ (child.tag = "c" /\ _is_pos_label(child))
            \/ (child.tag = "blockquote"
                  /\ _detect_section(Lower(_tag_to_text(child))) # 0)

\* a header that brings content of its own: an inline sense (Concise), the
\* text after a section keyword (OALD)
HeaderWithContent(src, child) ==
  IF src = "concise"
    THEN _looks_like_pos_header(child) /\ _build_inline_sense(child) # NoSense
    ELSE child.tag = "blockquote"
           /\ ~_looks_like_section_label(
                  Lower(_tag_to_text(child)),
                  SECTION_KEYWORDS[_detect_section(Lower(_tag_to_text(child)))][1])

\* a child other than the headword marker that has visible text
HasContent(child) ==
  IF IsText(child) THEN Strip(child.text) # <<>>
  ELSE child.tag # "k" /\ _tag_to_text(child) # <<>>

\* the index of the first header among the children, or one past the last
FirstHeader(src, kids) ==
  MinOr({ i \in DOMAIN kids : IsHeaderChild(src, kids[i]) }, Len(kids) + 1)

\* every item of the entry is an item of the "headnote" section
HeadnoteOnly(entry, content) ==
  /\ AllSenses(entry) = <<>>
  /\ \A i \in DOMAIN entry.sections :
       entry.sections[i].key # "headnote" => entry.sections[i].entries = <<>>
  /\ content => SectionGet(entry.sections, "headnote") # <<>>

\* the markups that end at their first header, or have none
EndsAtHeader(src, kids, h) ==
  \/ h > Len(kids)
  \/ (h = Len(kids) /\ ~HeaderWithContent(src, kids[h]))

FrontInHeadnote(src, kids, h, entry) ==
  EndsAtHeader(src, kids, h)
    => HeadnoteOnly(entry, \E i \in 1..(h - 1) : HasContent(kids[i]))

KidsInHeadnote(src, kids, entry) ==
  FrontInHeadnote(src, kids, FirstHeader(src, kids), entry)

\* C22: all content met before the first part-of-speech header or first
\* section header is collected into the "headnote" section and attributed to
\* no PartOfSpeechBlock, Sense or other section; a non-header block placed
\* before the first part-of-speech header ends up in headnote
C22_HeadnoteBeforeFirstHeader ==
  (probe.fn = "get_entry" /\ probe.done /\ probe.out.exc = "")
    => KidsInHeadnote(probe.arg.src, RootChildren(probe.arg.raw), probe.out.entry)

\* in the OALD parser the text and the tags other than blockquote in front
\* of the first header and the first blockquote are the headnote
InlineFront(kids, h) ==
  \A i \in 1..(h - 1) : kids[i].tag # "blockquote"

OaldInlineInHeadnote ==
  (probe.fn = "get_entry" /\ probe.done /\ probe.out.exc = "" /\ probe.arg.src = "oald"
     /\ InlineFront(RootChildren(probe.arg.raw),
                    FirstHeader("oald", RootChildren(probe.arg.raw))))
    => KidsInHeadnote("oald", RootChildren(probe.arg.raw), probe.out.entry)

\* the OALD markup of a plain block followed by a part-of-speech label: the
\* block is the one item of "notes" and there is no headnote
BlockBeforeLabelIsNote ==
  /\ probe.fn = "get_entry"
  /\ probe.done
  /\ probe.arg.src = "oald"
  /\ probe.arg.raw = MarkupOf(OaldPieces, <<5, 2>>)
  /\ Len(NotesOf(probe.out.entry)) = 1
  /\ SectionGet(probe.out.entry.sections, "headnote") = <<>>

\* the OALD markup of text and an inline tag followed by a part-of-speech
\* label: one headnote item and nothing else
InlineBeforeLabelIsHeadnote ==
  /\ probe.fn = "get_entry"
  /\ probe.done
  /\ probe.arg.src = "oald"
  /\ probe.arg.raw = MarkupOf(OaldPieces, <<1, 2>>)
  /\ Len(SectionGet(probe.out.entry.sections, "headnote")) = 1
  /\ NotesOf(probe.out.entry) = <<>>

\* ------------------------------------------------------------------------
\* blocks without visible text
\* ------------------------------------------------------------------------
\* a block with no sense marker and no visible text
IsBlank(child) ==
  /\ child.tag = "blockquote"
  /\ _tag_to_text(child) = <<>>
  /\ ~_looks_like_sense(child)

\* the part-of-speech blocks and sections a parser makes of the children
ItemsOfKids(src, kids) ==
  IF src = "concise"
    THEN ConciseLoop(ConciseStart, WalkedBlocks(src, kids)).entry
    ELSE OaldFinish(OaldLoop(OaldStart, kids), <<>>, <<>>)

SameItems(entry, other) ==
  /\ entry.pos_blocks = other.pos_blocks
  /\ entry.sections = other.sections

BlanksSkipped(src, kids, others, entry) ==
  kids # others => SameItems(entry, ItemsOfKids(src, others))

\* C23: a block with no extractable sense marker and no visible text is
\* skipped by both parsers: the entry holds the part-of-speech blocks,
\* senses and section items of the same markup without that block, so the
\* block added nothing and changed neither the open section nor the
\* current block
C23_BlankBlockSkipped ==
  (probe.fn = "get_entry" /\ probe.done /\ probe.out.exc = "")
    => BlanksSkipped(probe.arg.src, RootChildren(probe.arg.raw),
                     SelectSeq(RootChildren(probe.arg.raw), LAMBDA n : ~IsBlank(n)),
                     probe.out.entry)

\* the Concise parser skips such a block
ConciseBlankSkipped ==
  (probe.fn = "get_entry" /\ probe.done /\ probe.out.exc = "" /\ probe.arg.src = "concise")
    => BlanksSkipped("concise", RootChildren(probe.arg.raw),
                     SelectSeq(RootChildren(probe.arg.raw), LAMBDA n : ~IsBlank(n)),
                     probe.out.entry)

\* the Concise markup of a section header, a blank block and a labelled
\* item: the item is in the section
ConciseBlankInSection ==
  /\ probe.fn = "get_entry"
  /\ probe.done
  /\ probe.arg.src = "concise"
  /\ probe.arg.raw = MarkupOf(ConcisePieces \o BlankPieces, <<7, 10, 8>>)
  /\ Len(SectionGet(probe.out.entry.sections, "phrases")) = 1

\* the OALD markup of the label "Word Origin:", a block of white space and
\* a numbered block: the numbered block is a Sense, "origin" has no item
OaldBlankTakesSection ==
  /\ probe.fn = "get_entry"
  /\ probe.done
  /\ probe.arg.src = "oald"
  /\ probe.arg.raw = MarkupOf(OaldPieces \o BlankPieces, <<6, 9, 4>>)
  /\ Len(AllSenses(probe.out.entry)) = 1
  /\ SectionGet(probe.out.entry.sections, "origin") = <<>>

\* the OALD markup of a block that holds an empty inline tag: one item of
\* "notes" without text
OaldBlankIsNote ==
  /\ probe.fn = "get_entry"
  /\ probe.done
  /\ probe.arg.src = "oald"
  /\ probe.arg.raw = MarkupOf(OaldPieces \o BlankPieces, <<10>>)
  /\ Len(NotesOf(probe.out.entry)) = 1
  /\ NotesOf(probe.out.entry)[1].text = <<>>

\* ------------------------------------------------------------------------
\* characters of plain text in the rendered output
\* ------------------------------------------------------------------------
\* the characters html.escape replaces
RawSpecials == { CharRefs[i][2] : i \in DOMAIN CharRefs }

\* no character of the markup is a bare "&", "<" or ">"
IsEscaped(html) == html = None \/ \A i \in DOMAIN html : html[i] \notin RawSpecials

\* every section item of the entry
AllSectionEntries(entry) ==
  Concat([i \in DOMAIN entry.sections |-> entry.sections[i].entries])

\* the html fields of the senses, section items and part-of-speech blocks
FragmentsEscaped(senses, items, blocks) ==
  /\ \A i \in DOMAIN senses : IsEscaped(senses[i].html)
  /\ \A i \in DOMAIN items : IsEscaped(items[i].html)
  /\ \A i \in DOMAIN blocks : IsEscaped(blocks[i].html)

EntryEscaped(entry) ==
  FragmentsEscaped(AllSenses(entry), AllSectionEntries(entry), entry.pos_blocks)

\* C24: every plain-text value that reaches the rendered output is
\* HTML-escaped and only cleaned markup is inserted verbatim: for a markup
\* without bare "&", "<", ">" the rendering has none either, and the html
\* field of a Sense built by a parser holds no unescaped plain text
C24_PlainTextEscaped ==
  (probe.fn = "get_entry" /\ probe.done /\ probe.out.exc = ""
     /\ IsEscaped(probe.arg.raw))
    => /\ IsEscaped(probe.out.html)
       /\ \A i \in DOMAIN AllSenses(probe.out.entry) :
            IsEscaped(AllSenses(probe.out.entry)[i].html)

\* render_entry_html escapes what it takes from text fields: when the html
\* fields of the entry are escaped, so is the rendering
RendererEscapes ==
  (probe.fn = "get_entry" /\ probe.done /\ probe.out.exc = ""
     /\ EntryEscaped(probe.out.entry))
    => IsEscaped(probe.out.html)

\* a headword with "&" is rendered with the character reference
HeadwordIsEscaped ==
  /\ probe.fn = "get_entry"
  /\ probe.done
  /\ probe.arg.raw = AMP_K \o ConcisePieces[4]
  /\ probe.out.entry.headword = <<"r", "&", "d">>
  /\ Contains(probe.out.html, <<"r", "&amp;", "d">>)

\* the Concise part-of-speech header "n" with the inline text "a &lt; b":
\* the html of its Sense and the rendering hold a bare "<"
InlineSenseIsRaw ==
  /\ probe.fn = "get_entry"
  /\ probe.done
  /\ probe.arg.src = "concise"
  /\ probe.arg.raw = MarkupOf(ConcisePieces \o ConciseEntities, <<10>>)
  /\ AllSenses(probe.out.entry)[1].html = <<"a", " ", "<", " ", "b">>
  /\ Contains(probe.out.html, <<" ", "a", " ", "<", " ", "b", "</li>">>)

\* the OALD text "a &lt; b" in front of the first block: the html of the
\* headnote item and the rendering hold a bare "<"
HeadnoteIsRaw ==
  /\ probe.fn = "get_entry"
  /\ probe.done
  /\ probe.arg.src = "oald"
  /\ probe.arg.raw = MarkupOf(OaldPieces \o OaldEntities, <<9>>)
  /\ SectionGet(probe.out.entry.sections, "headnote")[1].html = <<"a", " ", "<", " ", "b">>
  /\ ~IsEscaped(probe.out.html)

\* ------------------------------------------------------------------------
\* the marker of a rendered sense
\* ------------------------------------------------------------------------
\* how many tokens of the markup are the token
CountOf(html, tok) == Cardinality({ i \in DOMAIN html : html[i] = tok })

\* the senses that carry a numeral marker
Numbered(senses) == SelectSeq(senses, LAMBDA s : s.marker # None)

MarkersMatch(html, senses) ==
  /\ CountOf(html, "<li>") >= Len(senses)
  /\ CountOf(html, "<span class=sense-marker>") = Len(Numbered(senses))

\* C25: a Sense whose marker is absent is rendered as a list item with no
\* marker prefix; the rendering has one sense-marker span for each sense
\* that carries a numeral marker and no other
C25_NoMarkerNoPrefix ==
  (probe.fn = "get_entry" /\ probe.done /\ probe.out.exc = "")
    => MarkersMatch(probe.out.html, AllSenses(probe.out.entry))

\* the senses with a marker are rendered with it: no more such senses than
\* spans
NumberedHaveSpan ==
  (probe.fn = "get_entry" /\ probe.done /\ probe.out.exc = "")
    => CountOf(probe.out.html, "<span class=sense-marker>")
         >= Len(Numbered(AllSenses(probe.out.entry)))

\* the Concise free text "at speed" alone: its Sense has no marker and is
\* rendered with the marker "None."
UnnumberedRendersNone ==
  /\ probe.fn = "get_entry"
  /\ probe.done
  /\ probe.arg.src = "concise"
  /\ probe.arg.raw = MarkupOf(ConcisePieces, <<6>>)
  /\ AllSenses(probe.out.entry)[1].marker = None
  /\ Contains(probe.out.html,
              <<"<li>", "<span class=sense-marker>", "N", "o", "n", "e", ".", "</span>",
                " ", "a", "t", " ", "s", "p", "e", "e", "d", "</li>">>)

\* ------------------------------------------------------------------------
\* blocks that follow a section header
\* ------------------------------------------------------------------------
\* a Concise block that looks like a part-of-speech header or carries a
\* sense marker
HeaderOrSense(block) ==
  /\ _tag_to_text(block) # <<>>
  /\ _match_section_header(block) = ""
  /\ (_looks_like_pos_header(block) \/ _build_sense(block).marker # None)

\* the last block made a PartOfSpeechBlock or a Sense and no section item
BackToSenses(before, after, routed) ==
  /\ \A d \in routed : d[1] # "SectionEntry"
  /\ \/ Len(after.pos_blocks) > Len(before.pos_blocks)
     \/ <<"Sense", "">> \in routed

\* the last block became an item of the open section and nothing else
KeptInSection(before, after, routed, section) ==
  /\ routed = {<<"SectionEntry", section>>}
  /\ after.pos_blocks = before.pos_blocks

LastBackToSenses(block, before, after) ==
  (before.section # "" /\ HeaderOrSense(block))
    => BackToSenses(before.entry, after, Routed(before.entry, after))

LastKeptInSection(block, before, after) ==
  (before.section # "" /\ HeaderOrSense(block))
    => KeptInSection(before.entry, after, Routed(before.entry, after), before.section)

BlocksBackToSenses(blocks, after) ==
  blocks # <<>>
    => LastBackToSenses(blocks[Len(blocks)],
                        BeforeLast("concise", SubSeq(blocks, 1, Len(blocks) - 1)), after)

BlocksKeptInSection(blocks, after) ==
  blocks # <<>>
    => LastKeptInSection(blocks[Len(blocks)],
                         BeforeLast("concise", SubSeq(blocks, 1, Len(blocks) - 1)), after)

\* C26: in the Concise parser a part-of-speech header or sense block that
\* follows a section header still produces a PartOfSpeechBlock or a Sense
\* and is not stored as an item of that section
C26_SectionClosesTemporarily ==
  (probe.fn = "get_entry" /\ probe.done /\ probe.out.exc = "" /\ probe.arg.src = "concise")
    => BlocksBackToSenses(WalkedBlocks("concise", RootChildren(probe.arg.raw)),
                          probe.out.entry)

\* what the loop does instead: once a section is open, such a block is
\* stored as an item of the open section
SectionStaysOpen ==
  (probe.fn = "get_entry" /\ probe.done /\ probe.out.exc = "" /\ probe.arg.src = "concise")
    => BlocksKeptInSection(WalkedBlocks("concise", RootChildren(probe.arg.raw)),
                           probe.out.entry)

\* the Concise markup of the header "PHRASES" and a numbered block: the
\* block is the item of "phrases" and the entry has no sense
SenseAfterSectionIsItem ==
  /\ probe.fn = "get_entry"
  /\ probe.done
  /\ probe.arg.src = "concise"
  /\ probe.arg.raw = MarkupOf(ConcisePieces, <<7, 4>>)
  /\ Len(SectionGet(probe.out.entry.sections, "phrases")) = 1
  /\ probe.out.entry.pos_blocks = <<>>

\* ------------------------------------------------------------------------
\* the blocks that follow a part-of-speech label of the OALD
\* ------------------------------------------------------------------------
\* a direct child that is a part-of-speech label
IsPosLabel(child) == child.tag = "c" /\ _is_pos_label(child)

\* a block that carries a sense marker and starts with no section keyword
IsSenseBlock(child) ==
  /\ child.tag = "blockquote"
  /\ _detect_section(Lower(_tag_to_text(child))) = 0
  /\ _looks_like_sense(child)

\* the last part-of-speech block has the label and one sense
FirstSenseOf(blocks, label) ==
  /\ blocks # <<>>
  /\ blocks[Len(blocks)].label = label
  /\ Len(blocks[Len(blocks)].senses) = 1

\* the sense block that follows the label is the first Sense of its block
\* and no section item
SenseUnderLabel(label, before, after) ==
  /\ FirstSenseOf(after.pos_blocks, _normalize_ws(GetTextSep(label)))
  /\ after.sections = before.sections
  /\ Len(AllSenses(after)) = Len(AllSenses(before)) + 1

KidsSenseUnderLabel(kids, n, after) ==
  (n >= 2 /\ IsSenseBlock(kids[n]) /\ IsPosLabel(kids[n - 1]))
    => SenseUnderLabel(kids[n - 1],
                       BeforeLast("oald", SubSeq(kids, 1, n - 1)).entry, after)

\* the same when no bare section label waits for its content
KidsSenseUnderLabelNoPending(kids, n, after) ==
  (n >= 2 /\ IsSenseBlock(kids[n]) /\ IsPosLabel(kids[n - 1])
     /\ BeforeLast("oald", SubSeq(kids, 1, n - 1)).section = "")
    => SenseUnderLabel(kids[n - 1],
                       BeforeLast("oald", SubSeq(kids, 1, n - 1)).entry, after)

\* C27: in the OALD parser a part-of-speech label closes every open
\* section: the sense-like block that follows the label becomes the Sense
\* of the new PartOfSpeechBlock, also when a bare section label in front of
\* the label still waits for its content
C27_LabelClosesSections ==
  (probe.fn = "get_entry" /\ probe.done /\ probe.out.exc = "" /\ probe.arg.src = "oald")
    => KidsSenseUnderLabel(RootChildren(probe.arg.raw),
                           Len(RootChildren(probe.arg.raw)), probe.out.entry)

\* a part-of-speech label closes the active section: with no section label
\* waiting, the sense-like block after the label is the first Sense of the
\* new block
LabelClosesActive ==
  (probe.fn = "get_entry" /\ probe.done /\ probe.out.exc = "" /\ probe.arg.src = "oald")
    => KidsSenseUnderLabelNoPending(RootChildren(probe.arg.raw),
                                    Len(RootChildren(probe.arg.raw)), probe.out.entry)

\* "Thesaurus dash", the label "verb", a numbered block: the block is the
\* Sense of "verb"
SenseAfterActiveSection ==
  /\ probe.fn = "get_entry"
  /\ probe.done
  /\ probe.arg.src = "oald"
  /\ probe.arg.raw = MarkupOf(OaldPieces, <<7, 2, 4>>)
  /\ Len(probe.out.entry.pos_blocks) = 1
  /\ probe.out.entry.pos_blocks[1].label = <<"v", "e", "r", "b">>
  /\ Len(SectionGet(probe.out.entry.sections, "thesaurus")) = 1

\* "Word Origin:", the label "verb", a numbered block: the block is the
\* item of "origin" and the entry has no part-of-speech block
SenseAfterPendingIsItem ==
  /\ probe.fn = "get_entry"
  /\ probe.done
  /\ probe.arg.src = "oald"
  /\ probe.arg.raw = MarkupOf(OaldPieces, <<6, 2, 4>>)
  /\ probe.out.entry.pos_blocks = <<>>
  /\ Len(SectionGet(probe.out.entry.sections, "origin")) = 1

\* ------------------------------------------------------------------------
\* free text in front of the first sense of a part-of-speech block
\* ------------------------------------------------------------------------
\* a part-of-speech label among the children in front of the last one,
\* with no sense-like block after it
LabelWithoutSense(kids, n) ==
  \E p \in 1..(n - 1) :
    /\ IsPosLabel(kids[p])
    /\ \A j \in (p + 1)..(n - 1) :
         ~(kids[j].tag = "blockquote" /\ _looks_like_sense(kids[j]))

\* the last block changed no Sense and became an item of the open section,
\* or of "notes" when none is open
NotContinued(before, after, section) ==
  /\ AllSenses(after) = AllSenses(before)
  /\ Routed(before, after)
       = {<<"SectionEntry", IF section # "" THEN section ELSE "notes">>}

LastNotContinued(before, after) == NotContinued(before.entry, after, before.section)

KidsNotContinued(kids, n, after) ==
  (n >= 2 /\ OaldFree(kids[n]) /\ LabelWithoutSense(kids, n))
    => LastNotContinued(BeforeLast("oald", SubSeq(kids, 1, n - 1)), after)

\* C28: in the OALD parser free text that follows a new part-of-speech
\* label and precedes the first sense of that block is appended to no Sense
\* of an earlier block; it becomes an item of the open section or of "notes"
C28_ContinuationInCurrentBlock ==
  (probe.fn = "get_entry" /\ probe.done /\ probe.out.exc = "" /\ probe.arg.src = "oald")
    => KidsNotContinued(RootChildren(probe.arg.raw),
                        Len(RootChildren(probe.arg.raw)), probe.out.entry)

\* the labels "verb", a numbered block, "verb" again and the free text
\* "at speed": the one Sense has no note and the text is the item of "notes"
C28_Witness ==
  /\ probe.fn = "get_entry"
  /\ probe.done
  /\ probe.arg.src = "oald"
  /\ probe.arg.raw = MarkupOf(OaldPieces, <<2, 4, 2, 5>>)
  /\ Len(AllSenses(probe.out.entry)) = 1
  /\ ~Contains(AllSenses(probe.out.entry)[1].html, <<"<div class=sense-note>">>)
  /\ Len(NotesOf(probe.out.entry)) = 1
  /\ NotesOf(probe.out.entry)[1].text = <<"a", "t", " ", "s", "p", "e", "e", "d">>

\* ------------------------------------------------------------------------
\* get_def on a used resolver and on a new one
\* ------------------------------------------------------------------------
\* what get_def(word) does on a resolver that made no call yet
FreshGetDef(word, disk) ==
  get_def(word, [oald |-> "None", concise |-> "None"], <<>>, disk)

\* the call ended as the call on the new resolver does
AsFresh(call, fresh) ==
  /\ call.returned = fresh.returned
  /\ call.returned => call.result = fresh.result

\* C29: whatever calls were made before, get_def(w) returns what a new
\* resolver returns for w, also when an earlier call used another casing
\* of w
C29_HistoryIndependent ==
  last.op = "get_def" => AsFresh(last, FreshGetDef(last.word, env))

\* a call that is the first for its cache key returns what a new resolver
\* returns, whatever parsers the earlier calls left
FirstCallAsFresh ==
  (last.op = "get_def" /\ ~last.repeat) => AsFresh(last, FreshGetDef(last.word, env))

\* get_def("Bar") after get_def("bar") with all dictionaries present: the
\* cache answers with the OALD entry of "bar", a new resolver answers
\* get_def("Bar") with the fallback entries
OtherCasingFromCache ==
  /\ last.op = "get_def"
  /\ last.word = <<"B", "a", "r">>
  /\ last.hit
  /\ env = EnvCases[1]
  /\ last.result # FreshGetDef(<<"B", "a", "r">>, env).result
  /\ last.result = FreshGetDef(<<"b", "a", "r">>, env).result

\* ------------------------------------------------------------------------
\* _strip_unwanted_segments applied to its own output
\* ------------------------------------------------------------------------
\* HTML in which a dropped element or text node stands between two pieces
\* of text
StripJoined ==
  { <<"[", "<rref>", "x", ".", "w", "a", "v", "</rref>", "a", "b", "c", "]">>,
    <<"<p>", "[", "<audio>", "</audio>", "a", "]", " ", "t", "o", "</p>">>,
    <<"<p>", "B", "r", "<b>", "[", "x", "]", "</b>", "E", "</p>", "<p>", "t", "o", "</p>">>,
    <<"<p>", "a", "<rref>", "x", "</rref>", "b", "</p>">>,
    <<"<p>", "t", "o", " ", "<b>", "B", "r", "E", "</b>", " ", "g", "o", "</p>">>,
    <<"<p>", "n", "a", "<i>", "B", "r", "E", "</i>", "m", "e", " ", "</p>", "<b>", "x", "</b>">> }

\* a resolver that is not used, and an HTML string to sanitize twice
InitAgain ==
  /\ NewResolver
  /\ env \in BothBuilds
  /\ words = WordLists[1]
  /\ probe \in { [fn |-> "sanitize twice", arg |-> h, done |-> FALSE,
                  out |-> [once |-> Returns(<<>>), twice |-> Returns(<<>>)]] :
                   h \in StripHtml \cup StripJoined }

\* the outcome of the sanitizer and, when it returned, the outcome for
\* what it returned
Twice(once, decomposed) ==
  [once |-> once,
   twice |-> IF once.exc # "" THEN once
             ELSE _strip_unwanted_segments(once.html, decomposed)]

\* the calls _strip_unwanted_segments(_strip_unwanted_segments(html))
ApplyAgain ==
  /\ probe.fn = "sanitize twice"
  /\ ~probe.done
  /\ probe' = [probe EXCEPT !.done = TRUE,
                            !.out = Twice(_strip_unwanted_segments(probe.arg,
                                                                   env.decomposed),
                                          env.decomposed)]
  /\ UNCHANGED <<_oald_parser, _concise_parser, _cache, env, words, last, first,
                 built, attempted>>

NextAgain == ApplyAgain

SpecAgain == InitAgain /\ [][NextAgain]_vars

\* the text nodes of the HTML that _should_drop
Droppable(soup) ==
  SelectSeq(AllStrings(soup), _should_drop)

\* both calls returned, the second what the first returned, and no text
\* node of it is one the sanitizer drops
SanitizedAgain(out, again) ==
  /\ out.exc = ""
  /\ again = out
  /\ Droppable(BeautifulSoup(out.html)) = <<>>

\* C30: _strip_unwanted_segments applied to its own output returns that
\* output unchanged, and the output holds no text node that the sanitizer
\* would still drop
C30_SanitizeIdempotent ==
  (probe.fn = "sanitize twice" /\ probe.done)
    => SanitizedAgain(probe.out.once, probe.out.twice)

\* where no removal joins two pieces of text (the HTML built from pieces,
\* siblings and wrappers) and the document keeps some visible text, a
\* second pass changes nothing
SeparateIdempotent ==
  (probe.fn = "sanitize twice" /\ probe.done /\ probe.arg \in StripHtml
     /\ TextLeft(BeautifulSoup(probe.arg)))
    => SanitizedAgain(probe.out.once, probe.out.twice)

\* "[", an rref element and "abc]": the output is the text "[abc]", which
\* the sanitizer drops when it is applied again; nothing visible is left
\* then, so the second call decodes a decomposed soup
JoinedBracketsLeft ==
  /\ probe.fn = "sanitize twice"
  /\ probe.done
  /\ probe.arg = <<"[", "<rref>", "x", ".", "w", "a", "v", "</rref>", "a", "b", "c", "]">>
  /\ probe.out.once = Returns(<<"[", "a", "b", "c", "]">>)
  /\ probe.out.twice = DecodeDecomposed(env.decomposed)

\* "<b>BrE</b>" on a build that decodes a decomposed soup: the first call
\* returns "<None></None>", the second "<none></none>"
DecomposedLowered ==
  /\ probe.fn = "sanitize twice"
  /\ probe.done
  /\ probe.arg = <<"<b>", "B", "r", "E", "</b>">>
  /\ probe.out.once = Returns(<<"<None>", "</None>">>)
  /\ probe.out.twice = Returns(<<"<none>", "</none>">>)

====
